---- MODULE Spec2Model ----
(***************************************************************************)
(* A model of i3hub (src/i3hub.py): the I3Connection request/reply and     *)
(* event multiplexer running on an asyncio event loop, and the I3Hub       *)
(* lifecycle built on top of it.                                           *)
(*                                                                         *)
(* The asyncio loop is modelled by its FIFO queue of runnable tasks        *)
(* (ready): the task at the head of the queue is the one executing.  A     *)
(* step that ends at a real suspension point removes the task from the     *)
(* head; a step that ends where the coroutine goes on without yielding     *)
(* (a loop head, the return of a nested coroutine) leaves it at the head,  *)
(* so no other task runs in between.  Future.set_result and create_task    *)
(* append the woken or the new task at the tail, as call_soon does.        *)
(***************************************************************************)
EXTENDS Integers, Sequences, FiniteSets, TLC

\* ------------------------------------------------------------------ bounds
MaxCalls == 3      \* _send invocations made by client tasks in one run
MaxEvents == 2     \* event frames the peer emits in one run
MaxCloses == 2     \* calls of I3Hub.close made by signal handlers
MaxRefresh == 2    \* calls of refresh_i3bar in one run
MaxStops == 1      \* stop signals sent by i3bar in one run
MaxClicks == 3     \* click lines i3bar writes after the opening bracket
MaxMerges == 2     \* status_array_merge calls on one array
MaxEmits == 2      \* emit_event calls in one run

\* ------------------------------------------------------------------- tasks
Callers == {"c1", "c2"}          \* tasks that call I3Connection._send
Consumers == {"ev"}              \* tasks that call I3Connection.wait_event
WaitReplyTasks == {"w1", "w2", "w3"}   \* tasks running _wait_reply
\* I3Hub.run, _dispatch_i3_events, _run_status, and the tasks that
\* _dispatch_i3_events creates to run _dispatch_event
DispatchTasks == {"d1", "d2", "d3"}
\* the tasks refresh_i3bar creates to run _output_updated_status
RefreshTasks == {"s1", "s2", "s3"}
\* "click" runs _read_click_events
HubTasks == {"run", "loop", "status", "click", "emit"} \cup DispatchTasks
                \cup RefreshTasks
Tasks == Callers \cup Consumers \cup WaitReplyTasks \cup HubTasks
NoTask == "none"

\* ------------------------------------------------------- wire level values
None == "None"                         \* Python's None
I3_EVENTS == <<"workspace", "output", "mode", "window",
               "barconfig_update", "binding", "shutdown", "tick">>
\* JSON payloads the peer puts in event frames, as decoded Python values
\* the k-th event frame the peer emits: (type index, payload)
PeerEventNo(k) == <<<<3, "[1]">>, <<0, "{}">>, <<7, "[2]">>, <<1, "[3]">>,
                    <<5, "[4]">>>>[k]
\* the JSON body of the peer's reply to the k-th request it reads
ReplyFor(k) == <<"r1", "r2", "r3", "r4", "r5", "r6">>[k]
EofMsg == [ev |-> FALSE, type |-> -1, payload |-> None]
MAGIC == <<105, 51, 45, 105, 112, 99>>          \* b'i3-ipc'
\* six bytes that are not the magic string
BadMagic == <<105, 51, 45, 105, 112, 120>>
\* fewer than HEADER_SIZE bytes of a header, with EOF behind them
PartialHeader == [ev |-> FALSE, type |-> -2, payload |-> None,
                  magic |-> <<105, 51, 45>>]
\* a frame body that json.loads rejects
InvalidJson == "[1"

VARIABLES
    pc,            \* task -> position in its coroutine
    ready,         \* the loop's FIFO queue of runnable tasks
    inStep,        \* the task at the head of ready is in the middle of a step
    reply,         \* I3Connection._reply: the pending-reply future
    send_queue,    \* I3Connection._send_queue: tasks waiting their turn
    event_queue,   \* I3Connection._event_queue
    eof,           \* I3Connection._eof
    polling,       \* I3Connection._polling
    inbuf,         \* frames the peer sent that the reader has not consumed
    sockEof,       \* the reader was fed EOF (peer closed, or close())
    connClosed,    \* the connection's writer (the transport) was closed
    streamWaiter,  \* the task suspended in StreamReader.readexactly
    written,       \* request frames written to the socket, in order
    callId,        \* task -> the ordinal of its current _send invocation
    ncalls,        \* _send invocations so far
    nreplied,      \* requests the peer has answered
    nevents,       \* event frames the peer has emitted
    returned,      \* history: (caller, payload) of every _send return
    yielded,       \* history: every pair wait_event returned
    raised,        \* history: exceptions raised out of coroutines
    closed,        \* I3Hub._closed
    shutting_down, \* I3ApiWrapper._shutting_down
    extensions,    \* I3Hub._extensions: the (name, extension) list
    run_as_status, \* I3Hub.run_as_status: an i3bar writer was given
    event_handlers,\* I3Hub._event_handlers: event -> list of handlers
    registered,    \* keys of I3Hub._registered_extensions
    barOut,        \* what was written to the i3bar writer
    barEof,        \* the i3bar reader was fed EOF
    dctx,          \* task -> the _dispatch_event frame it is executing
    invoked,       \* history: every handler invocation
    dispatched,    \* history: every _dispatch_event call
    closeCalls,    \* history: calls of I3Hub.close and of I3Connection.close
    first_status_update,  \* I3Hub._first_status_update
    status_array,  \* task -> the status_array of its _output_updated_status
    stopped,       \* i3bar sent the stop signal and not yet the cont signal
    req,           \* task -> the message method it calls and its argument
    clickIn,       \* lines i3bar wrote that the i3bar reader has not consumed
    is_first,      \* the local is_first of _read_click_events
    clickSent,     \* history: the click lines i3bar wrote after the bracket
    m_array,       \* the status array handed to status_array_merge
    m_log,         \* history: the items merged into m_array, in order
    c_in,          \* the (type, event flag, payload) being sent as a frame
    c_wire,        \* the bytes of the frame on the wire
    c_out,         \* what _recv returned for the frame
    emitted        \* history: the emit_event calls that returned

connVars == <<reply, send_queue, event_queue, eof, polling>>
sockVars == <<inbuf, sockEof, connClosed, streamWaiter, written, nreplied,
             nevents>>
histVars == <<callId, ncalls, returned, yielded, raised>>
hubVars == <<closed, shutting_down, extensions, run_as_status,
            event_handlers, registered, barOut, barEof, dctx, invoked,
            dispatched>>
statusVars == <<first_status_update, status_array, stopped>>
clickVars == <<clickIn, is_first, clickSent>>
mergeVars == <<m_array, m_log>>
codecVars == <<c_in, c_wire, c_out>>
vars == <<pc, ready, inStep, connVars, sockVars, histVars, hubVars,
          closeCalls, statusVars, req, clickVars, mergeVars, codecVars,
          emitted>>

\* asyncio.Future held in _reply; owner "none" stands for _reply = None
NoReply == [owner |-> NoTask, done |-> FALSE, val |-> None]
NewReply(t) == [owner |-> t, done |-> FALSE, val |-> None]

Running(t) == ready # <<>> /\ Head(ready) = t
\* the running task suspends (or ends); the tasks in wakes become runnable
Suspend(wakes) == ready' = Tail(ready) \o wakes /\ inStep' = FALSE
\* the running task goes on without yielding
Continue(wakes) == ready' = ready \o wakes /\ inStep' = TRUE
\* callbacks of the environment run between two steps of the loop
Idle == ~inStep

\* JSON values: null, a string of letters, a list of such strings
JNull == [t |-> "null", v |-> <<>>]
JStr(chars) == [t |-> "str", v |-> chars]
JList(strs) == [t |-> "list", v |-> strs]
\* json.loads raised JSONDecodeError
JError == [t |-> "error", v |-> <<>>]
Quote == 34
CommaChar == 44
\* the JSON text of a value, as i3 and json.dumps(separators=JSON_SEPS,
\* ensure_ascii=False) write it
RECURSIVE JoinTexts(_)
JoinTexts(ts) ==
    IF ts = <<>> THEN <<>>
    ELSE IF Len(ts) = 1 THEN ts[1]
    ELSE ts[1] \o <<CommaChar>> \o JoinTexts(Tail(ts))
JsonDumps(x) ==
    IF x.t = "null" THEN <<110, 117, 108, 108>>
    ELSE IF x.t = "str" THEN <<Quote>> \o x.v \o <<Quote>>
    ELSE <<91>> \o JoinTexts([i \in DOMAIN x.v |->
                                  <<Quote>> \o x.v[i] \o <<Quote>>]) \o <<93>>

\* no _dispatch_event frame
NoDispatch == [event |-> <<>>, arg |-> None, idx |-> 0, ctx |-> None]

\* lines 98-106 (I3Connection.__init__) and the socket it is given
InitConn ==
    /\ inStep = FALSE
    /\ reply = NoReply
    /\ send_queue = <<>>
    /\ event_queue = <<>>
    /\ eof = FALSE
    /\ polling = FALSE
    /\ inbuf = <<>>
    /\ sockEof = FALSE
    /\ connClosed = FALSE
    /\ streamWaiter = NoTask
    /\ written = <<>>
    /\ callId = [t \in Tasks |-> 0]
    /\ ncalls = 0
    /\ nreplied = 0
    /\ nevents = 0
    /\ returned = <<>>
    /\ yielded = <<>>
    /\ raised = {}
    /\ closeCalls = [hub |-> 0, conn |-> 0]
    /\ req = [t \in Tasks |-> [name |-> "command", arg |-> "cmd"]]
    /\ emitted = <<>>

\* lines 215-229 (I3Hub.__init__)
InitHub ==
    /\ closed = FALSE
    /\ shutting_down = FALSE
    /\ event_handlers = <<>>
    /\ registered = {}
    /\ barOut = <<>>
    /\ barEof = FALSE
    /\ dctx = [t \in HubTasks |-> NoDispatch]
    /\ invoked = <<>>
    /\ dispatched = <<>>
    /\ first_status_update = TRUE
    /\ status_array = [t \in RefreshTasks |-> <<>>]
    /\ stopped = FALSE
    /\ clickIn = <<>>
    /\ is_first = TRUE
    /\ clickSent = <<>>

\* no status_array_merge call and no frame under way
InitPure ==
    /\ m_array = <<>>
    /\ m_log = [start |-> <<>>, items |-> <<>>]
    /\ c_in = <<>>
    /\ c_wire = <<>>
    /\ c_out = <<>>

\* a connection used directly by client tasks, without a hub
Init ==
    /\ InitConn
    /\ InitHub
    /\ InitPure
    /\ pc = [t \in Tasks |-> IF t \in WaitReplyTasks THEN "free"
                              ELSE IF t \in HubTasks THEN "off" ELSE "idle"]
    /\ ready = <<>>
    /\ extensions = <<>>
    /\ run_as_status = FALSE

\* ------------------------------------------- I3Hub._setup_events
\* An event name 'ns::ev' is the pair <<ns, ev>> that line 286 splits it
\* into.  A handler is [h, listen]: its identity and its _i3hub_listen_to.
\* An extension is [name, module, status, handlers, classes]: module says
\* that it is a Python module, status is its _I3HUB_STATUS_EXTENSION,
\* handlers are its event handler members and classes the class extensions
\* found in a module, each [ext_name, status, handlers].
ExtPlain ==
    <<[name |-> "a", module |-> FALSE, status |-> FALSE, classes |-> <<>>,
       handlers |-> <<[h |-> "h1", listen |-> <<<<"i3hub", "init">>,
                                                <<"i3", "window">>,
                                                <<"i3", "shutdown">>>>]>>],
      [name |-> "b", module |-> FALSE, status |-> TRUE, classes |-> <<>>,
       handlers |-> <<[h |-> "h2", listen |-> <<<<"i3", "workspace">>,
                                                <<"i3", "window">>,
                                                <<"i3", "shutdown">>>>]>>]>>
ExtModule ==
    <<[name |-> "m", module |-> TRUE, status |-> FALSE,
       classes |-> <<[ext_name |-> None, status |-> FALSE,
                      handlers |-> <<[h |-> "h1",
                                      listen |-> <<<<"i3", "window">>,
                                                   <<"i3hub", "init">>>>]>>]>>,
       handlers |-> <<[h |-> "h2", listen |-> <<<<"i3", "shutdown">>,
                                                <<"i3", "tick">>>>]>>],
      [name |-> "m", module |-> FALSE, status |-> FALSE, classes |-> <<>>,
       handlers |-> <<[h |-> "h3", listen |-> <<<<"i3", "output">>>>]>>]>>
\* StatusEvents of src/test/extension.py with its handler of clicks
ExtClick ==
    <<[name |-> "st", module |-> TRUE, status |-> FALSE,
       classes |-> <<[ext_name |-> "status", status |-> TRUE,
                      handlers |-> <<[h |-> "event_handler",
                                      listen |-> <<<<"i3hub", "i3bar_click">>,
                                                   <<"i3hub", "i3bar_suspend">>,
                                                   <<"i3hub", "i3bar_resume">>>>],
                                     [h |-> "init_handler",
                                      listen |-> <<<<"i3hub", "init">>>>]>>]>>,
       handlers |-> <<>>]>>
ExtensionLists == {ExtPlain, ExtModule}
\* two extensions with an init handler each; both handlers listen to the
\* extension event 'custom' as well, the second one twice (two @listen
\* decorators naming the same event)
ExtEmit ==
    <<[name |-> "a", module |-> FALSE, status |-> FALSE, classes |-> <<>>,
       handlers |-> <<[h |-> "h1", listen |-> <<<<"i3hub", "init">>,
                                                <<"extension", "custom">>,
                                                <<"i3", "window">>>>]>>],
      [name |-> "b", module |-> FALSE, status |-> FALSE, classes |-> <<>>,
       handlers |-> <<[h |-> "h2", listen |-> <<<<"extension", "custom">>,
                                                <<"extension", "custom">>,
                                                <<"i3hub", "init">>>>]>>]>>
\* a status extension as StatusEvents of src/test/extension.py, a class
\* extension of a module: an init handler and the refresh handlers, here
\* three of them, in the order inspect.getmembers gives (by name)
ExtStatus ==
    <<[name |-> "st", module |-> TRUE, status |-> FALSE,
       classes |-> <<[ext_name |-> "status", status |-> TRUE,
                      handlers |-> <<[h |-> "init_handler",
                                      listen |-> <<<<"i3hub", "init">>>>],
                                     [h |-> "r1",
                                      listen |-> <<<<"i3hub", "i3bar_refresh">>>>],
                                     [h |-> "r2",
                                      listen |-> <<<<"i3hub", "i3bar_refresh">>>>],
                                     [h |-> "r3",
                                      listen |-> <<<<"i3hub", "i3bar_refresh">>>>]>>]>>,
       handlers |-> <<>>]>>

\* dict.get(key, [])
DictGet(d, k) == IF k \in DOMAIN d THEN d[k] ELSE <<>>

\* what discovery builds: _event_handlers, the registered names, the set
\* subscribed_i3_events, and the value discover_event_handlers returned
EmptyReg == [handlers |-> <<>>, names |-> {}, subscribed |-> {}, ret |-> None]

\* a discovery that subscribes to the events of every namespace
IsI3Event_Any(e) == TRUE
\* line 287: `if ns == 'i3'`
IsI3Event(e) == e[1] = "i3"

\* lines 284-289: every event the handler listens to; an i3 event is
\* added to the subscription, and the handler to the event's list
RECURSIVE AddListens(_, _, _)
AddListens(reg, h, listen) ==
    IF listen = <<>> THEN reg
    ELSE LET e == Head(listen)
             r == [reg EXCEPT
                     !.subscribed = IF IsI3Event(e) THEN @ \cup {e[2]} ELSE @,
                     !.handlers = [k \in DOMAIN @ \cup {e} |->
                                      IF k = e
                                      THEN Append(DictGet(reg.handlers, e), h)
                                      ELSE reg.handlers[k]]]
         IN  AddListens(r, h, Tail(listen))

\* line 283: every event handler member of the extension
RECURSIVE AddHandlers(_, _)
AddHandlers(reg, handlers) ==
    IF handlers = <<>> THEN reg
    ELSE AddHandlers(AddListens(reg, Head(handlers).h, Head(handlers).listen),
                     Tail(handlers))

\* lines 269-292: a status extension is skipped unless running as status
\* command, a second extension of the same name is skipped, otherwise the
\* handlers are added and the name registered
Register(reg, name, ext) ==
    IF ext.status /\ ~run_as_status THEN [reg EXCEPT !.ret = None]
    ELSE IF name \in reg.names THEN [reg EXCEPT !.ret = None]
    ELSE [AddHandlers(reg, ext.handlers) EXCEPT !.names = @ \cup {name},
                                                !.ret = name]

\* lines 260-263: the class extensions of a module, each under its own
\* name or, when it has none, the module's
RECURSIVE DiscoverClasses(_, _, _)
DiscoverClasses(reg, name, classes) ==
    IF classes = <<>> THEN reg
    ELSE LET c == Head(classes)
         IN  DiscoverClasses(
                 Register(reg, IF c.ext_name # None THEN c.ext_name ELSE name, c),
                 name, Tail(classes))

\* lines 254-292 (discover_event_handlers)
Discover(reg, name, ext) ==
    IF ext.module
    THEN LET r == DiscoverClasses([reg EXCEPT !.ret = None], name, ext.classes)
         IN  IF r.ret = name THEN r ELSE Register(r, name, ext)
    ELSE Register(reg, name, ext)

\* lines 294-296: `for name, extension in self._extensions`
RECURSIVE DiscoverAll(_, _)
DiscoverAll(reg, exts) ==
    IF exts = <<>> THEN reg
    ELSE DiscoverAll(Discover(reg, Head(exts).name, Head(exts)), Tail(exts))

\* line 297: the payload of the subscribe request
SubscribedI3Events == DiscoverAll(EmptyReg, extensions).subscribed

\* ------------------------------------------- MESSAGES, I3ConnectionMeta
\* lines 31-43: the catalog, in order; handler is the name of the lambda
\* that serializes the argument, "none" for a method without argument
MESSAGES ==
    <<[name |-> "command", handler |-> "identity"],
      [name |-> "get_workspaces", handler |-> "none"],
      [name |-> "subscribe", handler |-> "dumps"],
      [name |-> "get_outputs", handler |-> "none"],
      [name |-> "get_tree", handler |-> "none"],
      [name |-> "get_marks", handler |-> "none"],
      [name |-> "get_bar_config", handler |-> "or_empty"],
      [name |-> "get_version", handler |-> "none"],
      [name |-> "get_binding_modes", handler |-> "none"],
      [name |-> "get_config", handler |-> "none"],
      [name |-> "send_tick", handler |-> "or_empty"]>>
MessageNames == {MESSAGES[i].name : i \in DOMAIN MESSAGES}
IndexOf(name) == CHOOSE i \in DOMAIN MESSAGES : MESSAGES[i].name = name

\* a catalog numbered from one
Ordinal_FromOne(name) == IndexOf(name)
\* line 87: `enumerate(MESSAGES)` numbers the catalog from zero
Ordinal(name) == IndexOf(name) - 1

\* lines 79-84 (gen_method): the payload handed to _send, '' (the default
\* of _send) for a method without argument
Serialize(name, arg) ==
    LET h == MESSAGES[IndexOf(name)].handler IN
    IF h = "none" THEN ""
    ELSE IF h = "identity" THEN arg
    ELSE IF h = "or_empty" THEN (IF arg \in {None, ""} THEN "" ELSE arg)
    ELSE JsonDumps(JList(arg))

\* ------------------------------------------------- I3Connection._send
\* a _send that does not wait for its turn
SlotBusy_Never == FALSE
\* a _send that takes a resolved reply future for a free slot
SlotBusy_UntilDone == reply.owner # NoTask /\ ~reply.done

\* `while self._reply:` a Future object is always truthy, so the slot is
\* busy from the moment it is created until its owner resets it to None
SlotBusy == reply.owner # NoTask

\* `if not self._polling:` decides whether _send starts a _wait_reply task
NeedsReader == ~polling

\* `self._send_queue.popleft()`: the waiter woken when the slot is released
NextWaiter(q) == Head(q)
RestWaiters(q) == Tail(q)

FreeWaitReplyTask == CHOOSE w \in WaitReplyTasks : pc[w] = "free"

\* the message a task sends: run sends the subscribe request of
\* _setup_events (line 297), a client task calls the method req[t].name
\* with the argument req[t].arg
Request(t) ==
    IF t = "run" THEN [type |-> 2, payload |-> SubscribedI3Events]
    ELSE [type |-> Ordinal(req[t].name),
          payload |-> Serialize(req[t].name, req[t].arg)]

\* the ordinal of the invocation the running task is in: a task at "send"
\* is entering _send now, a task at "send_wait" was woken inside it
EnterId(t) == IF pc[t] = "send" THEN ncalls + 1 ELSE callId[t]
Entered(t) ==
    /\ callId' = [callId EXCEPT ![t] = EnterId(t)]
    /\ ncalls' = IF pc[t] = "send" THEN ncalls + 1 ELSE ncalls

\* lines 108-111 (_send_now): the frame goes to the writer; a transport
\* that was closed drops what is written to it
SendNow(t) ==
    IF connClosed THEN written
    ELSE Append(written, [by |-> t, id |-> EnterId(t),
                          type |-> Request(t).type,
                          payload |-> Request(t).payload])

\* lines 114-118: a request is outstanding, queue a future and wait for it
SendEnqueue(t) ==
    /\ Running(t)
    /\ pc[t] \in {"send", "send_wait"}
    /\ SlotBusy
    /\ send_queue' = Append(send_queue, t)
    /\ pc' = [pc EXCEPT ![t] = "send_wait"]
    /\ Suspend(<<>>)
    /\ Entered(t)
    /\ UNCHANGED <<req, emitted, clickVars, mergeVars, codecVars, statusVars, closeCalls, hubVars, reply, event_queue, eof, polling, sockVars,
                   returned, yielded, raised>>

\* lines 119-123: write the frame, create the reply future, start a
\* _wait_reply task unless a poll is in progress, wait for the reply
SendWrite(t) ==
    /\ Running(t)
    /\ pc[t] \in {"send", "send_wait"}
    /\ ~SlotBusy
    /\ written' = SendNow(t)
    /\ reply' = NewReply(t)
    /\ IF NeedsReader
       THEN /\ pc' = [pc EXCEPT ![t] = "await_reply",
                                ![FreeWaitReplyTask] = "loop"]
            /\ Suspend(<<FreeWaitReplyTask>>)
       ELSE /\ pc' = [pc EXCEPT ![t] = "await_reply"]
            /\ Suspend(<<>>)
    /\ Entered(t)
    /\ UNCHANGED <<req, emitted, clickVars, mergeVars, codecVars, statusVars, closeCalls, hubVars, send_queue, event_queue, eof, polling, inbuf, sockEof,
                   connClosed, streamWaiter, nreplied, nevents, returned,
                   yielded, raised>>

\* lines 123-128: the reply resolved; clear the slot, wake the next waiter
\* and return the payload.  With again the caller invokes _send once more
\* without yielding in between.
SendFinish(t, again) ==
    /\ Running(t)
    /\ pc[t] = "await_reply"
    /\ again => ncalls < MaxCalls
    /\ returned' = Append(returned, [by |-> t, id |-> callId[t], val |-> reply.val])
    /\ reply' = NoReply
    /\ LET wakes == IF send_queue # <<>> THEN <<NextWaiter(send_queue)>> ELSE <<>>
       IN  /\ send_queue' = IF send_queue # <<>> THEN RestWaiters(send_queue) ELSE <<>>
           /\ IF again \/ t = "run" THEN Continue(wakes) ELSE Suspend(wakes)
    /\ pc' = [pc EXCEPT ![t] = IF t = "run" THEN "subscribed"
                               ELSE IF again THEN "send" ELSE "idle"]
    /\ callId' = [callId EXCEPT ![t] = 0]
    /\ UNCHANGED <<req, emitted, clickVars, mergeVars, codecVars, statusVars, closeCalls, hubVars, event_queue, eof, polling, sockVars, ncalls,
                   yielded, raised>>

\* ------------------------------------- I3Connection._recv / _poll
\* where a coroutine ends when an exception leaves it
Dead(t) ==
    IF t \in WaitReplyTasks \cup DispatchTasks \cup RefreshTasks THEN "free"
    ELSE "dead"
\* line 429: run awaits gather(...), which resolves when _dispatch_i3_events
\* ends, with its result or with its exception
LoopEnded(t) == IF t = "loop" THEN <<"run">> ELSE <<>>

\* an event table read one place too far
EventOf_Shifted(m) ==
    [name |-> I3_EVENTS[((m.type + 1) % 8) + 1], payload |-> m.payload]
\* line 156: an event frame is queued under its catalog name
EventOf(m) == [name |-> I3_EVENTS[m.type + 1], payload |-> m.payload]
EofEvent == [name |-> "eof", payload |-> None]
\* an event queue filled at the wrong end
Enqueue_Front(q, e) == <<e>> \o q
Enqueue(q, e) == Append(q, e)

\* lines 150-151 and 131: set the polling flag and enter _recv, whose
\* assertion fails once EOF has been seen
PollBegin(t) ==
    /\ polling' = TRUE
    /\ IF eof
       THEN /\ pc' = [pc EXCEPT ![t] = Dead(t)]
            /\ raised' = raised \cup {"AssertionError"}
            /\ Suspend(LoopEnded(t))
       ELSE /\ pc' = [pc EXCEPT ![t] = "recv"]
            /\ raised' = raised
            /\ Continue(<<>>)

\* lines 161-163: `while not self._reply.done(): await self._poll()`
WaitReplyLoop(w) ==
    /\ Running(w)
    /\ w \in WaitReplyTasks
    /\ pc[w] = "loop"
    /\ IF reply = NoReply
       THEN /\ pc' = [pc EXCEPT ![w] = Dead(w)]
            /\ raised' = raised \cup {"AttributeError"}
            /\ Suspend(<<>>)
            /\ polling' = polling
       ELSE IF reply.done
       THEN /\ pc' = [pc EXCEPT ![w] = "free"]
            /\ Suspend(<<>>)
            /\ UNCHANGED <<raised, polling>>
       ELSE PollBegin(w)
    /\ UNCHANGED <<req, emitted, clickVars, mergeVars, codecVars, statusVars, closeCalls, hubVars, reply, send_queue, event_queue, eof, sockVars,
                   callId, ncalls, returned, yielded>>

\* lines 165-168: `while not self._event_queue: await self._poll()` and
\* `return self._event_queue.popleft()`
WaitEventLoop(e) ==
    /\ Running(e)
    /\ e \in Consumers \cup {"loop"}
    /\ pc[e] = "loop"
    /\ IF event_queue # <<>>
       THEN /\ yielded' = Append(yielded, Head(event_queue))
            /\ event_queue' = Tail(event_queue)
            /\ IF e = "loop"
               THEN pc' = [pc EXCEPT ![e] = "handle"] /\ Continue(<<>>)
               ELSE pc' = [pc EXCEPT ![e] = "idle"] /\ Suspend(<<>>)
            /\ UNCHANGED <<polling, raised>>
       ELSE /\ PollBegin(e)
            /\ UNCHANGED <<yielded, event_queue>>
    /\ UNCHANGED <<req, emitted, clickVars, mergeVars, codecVars, statusVars, closeCalls, hubVars, reply, send_queue, eof, sockVars, callId, ncalls,
                   returned>>

\* lines 133/142, no data: readexactly suspends the task as the stream's
\* waiter; StreamReader raises RuntimeError when another coroutine is
\* already waiting for data
RecvBlock(t) ==
    /\ Running(t)
    /\ pc[t] = "recv"
    /\ inbuf = <<>> /\ ~sockEof
    /\ IF streamWaiter = NoTask
       THEN /\ streamWaiter' = t
            /\ pc' = pc
            /\ raised' = raised
            /\ Suspend(<<>>)
       ELSE /\ streamWaiter' = streamWaiter
            /\ pc' = [pc EXCEPT ![t] = Dead(t)]
            /\ raised' = raised \cup {"RuntimeError"}
            /\ Suspend(LoopEnded(t))
    /\ UNCHANGED <<req, emitted, clickVars, mergeVars, codecVars, statusVars, closeCalls, hubVars, connVars, inbuf, sockEof, connClosed, written, nreplied, nevents,
                   callId, ncalls, returned, yielded>>

\* lines 133-147, data at hand: readexactly returns without suspending,
\* with a frame, or with IncompleteReadError at EOF ('eof'), which it
\* raises as well when EOF follows some bytes of a header
RecvResult ==
    IF inbuf # <<>> /\ Head(inbuf) # PartialHeader THEN Head(inbuf)
    ELSE EofMsg
\* a poll that hands any non-event frame to the reply slot
ReplyExpected_Always == TRUE
\* line 158: `assert self._reply` holds when a reply future is in the slot
ReplyExpected == reply # NoReply
\* line 146: json.loads raises on a body that is not JSON
JsonFails(m) == m # EofMsg /\ m.payload = InvalidJson

\* a poll that takes every frame for a reply
IsEventFrame_Never(m) == FALSE
\* lines 139 and 155: `is_event = msg_type & 0x80000000`, `elif is_event:`
IsEventFrame(m) == m.ev

\* lines 151-159: _recv returned; clear the polling flag and route the
\* frame: the synthetic eof event, an event, or the reply.  The magic
\* string unpacked at line 137 is not looked at.  An exception of
\* json.loads leaves _recv and _poll before line 152 resets the flag.
Poll(t) ==
    /\ Running(t)
    /\ pc[t] = "recv"
    /\ inbuf # <<>> \/ sockEof
    /\ inbuf' = IF inbuf # <<>> THEN Tail(inbuf) ELSE inbuf
    /\ eof' = IF RecvResult = EofMsg THEN TRUE ELSE eof
    /\ polling' = IF JsonFails(RecvResult) THEN polling ELSE FALSE
    /\ LET m == RecvResult IN
       IF JsonFails(m)
       THEN /\ pc' = [pc EXCEPT ![t] = Dead(t)]
            /\ raised' = raised \cup {"JSONDecodeError"}
            /\ Suspend(LoopEnded(t))
            /\ UNCHANGED <<reply, event_queue>>
       ELSE IF m = EofMsg
       THEN /\ event_queue' = Enqueue(event_queue, EofEvent)
            /\ pc' = [pc EXCEPT ![t] = "loop"]
            /\ Continue(<<>>)
            /\ UNCHANGED <<reply, raised>>
       ELSE IF IsEventFrame(m)
       THEN /\ event_queue' = Enqueue(event_queue, EventOf(m))
            /\ pc' = [pc EXCEPT ![t] = "loop"]
            /\ Continue(<<>>)
            /\ UNCHANGED <<reply, raised>>
       ELSE IF ~ReplyExpected
       THEN /\ pc' = [pc EXCEPT ![t] = Dead(t)]
            /\ raised' = raised \cup {"AssertionError"}
            /\ Suspend(LoopEnded(t))
            /\ UNCHANGED <<reply, event_queue>>
       ELSE IF reply.done
       THEN /\ pc' = [pc EXCEPT ![t] = Dead(t)]
            /\ raised' = raised \cup {"InvalidStateError"}
            /\ Suspend(LoopEnded(t))
            /\ UNCHANGED <<reply, event_queue>>
       ELSE /\ reply' = [reply EXCEPT !.done = TRUE, !.val = m.payload]
            /\ pc' = [pc EXCEPT ![t] = "loop"]
            /\ Continue(<<reply.owner>>)
            /\ UNCHANGED <<event_queue, raised>>
    /\ UNCHANGED <<req, emitted, clickVars, mergeVars, codecVars, statusVars, closeCalls, hubVars, send_queue, sockEof, connClosed, streamWaiter, written, nreplied,
                   nevents, callId, ncalls, returned, yielded>>

\* ---------------------------------------------------------- environment
\* feed_data / feed_eof wake the coroutine waiting in readexactly
WakeReader == IF streamWaiter = NoTask THEN <<>> ELSE <<streamWaiter>>

\* a client task becomes runnable and will invoke a message method
ClientStart(c) ==
    /\ Idle
    /\ c \in Callers
    /\ pc[c] = "idle"
    /\ ncalls + Cardinality({t \in Tasks : pc[t] = "send"}) < MaxCalls
    /\ pc' = [pc EXCEPT ![c] = "send"]
    /\ ready' = Append(ready, c)
    /\ UNCHANGED <<req, emitted, clickVars, mergeVars, codecVars, statusVars, closeCalls, hubVars, inStep, connVars, sockVars, histVars>>

\* a task becomes runnable and will call wait_event
ConsumerStart(e) ==
    /\ Idle
    /\ e \in Consumers
    /\ pc[e] = "idle"
    /\ pc' = [pc EXCEPT ![e] = "loop"]
    /\ ready' = Append(ready, e)
    /\ UNCHANGED <<req, emitted, clickVars, mergeVars, codecVars, statusVars, closeCalls, hubVars, inStep, connVars, sockVars, histVars>>

\* the peer answers the oldest unanswered request
PeerReply ==
    /\ Idle
    /\ ~sockEof
    /\ nreplied < Len(written)
    /\ nreplied' = nreplied + 1
    /\ inbuf' = Append(inbuf, [ev |-> FALSE, type |-> 0,
                               payload |-> ReplyFor(nreplied + 1),
                               magic |-> MAGIC])
    /\ ready' = ready \o WakeReader
    /\ streamWaiter' = NoTask
    /\ UNCHANGED <<req, emitted, clickVars, mergeVars, codecVars, statusVars, closeCalls, hubVars, pc, inStep, connVars, sockEof, connClosed, written, nevents,
                   histVars>>

\* the peer emits an event frame
PeerEvent(ty, p) ==
    /\ Idle
    /\ ~sockEof
    /\ nevents < MaxEvents
    /\ nevents' = nevents + 1
    /\ inbuf' = Append(inbuf, [ev |-> TRUE, type |-> ty, payload |-> p,
                               magic |-> MAGIC])
    /\ ready' = ready \o WakeReader
    /\ streamWaiter' = NoTask
    /\ UNCHANGED <<req, emitted, clickVars, mergeVars, codecVars, statusVars, closeCalls, hubVars, pc, inStep, connVars, sockEof, connClosed, written, nreplied,
                   histVars>>

\* the peer closes the socket: the reader is fed EOF
PeerClose ==
    /\ Idle
    /\ ~sockEof
    /\ sockEof' = TRUE
    /\ ready' = ready \o WakeReader
    /\ streamWaiter' = NoTask
    /\ UNCHANGED <<req, emitted, clickVars, mergeVars, codecVars, statusVars, closeCalls, hubVars, pc, inStep, connVars, inbuf, connClosed, written, nreplied,
                   nevents, histVars>>

\* lines 170-171 (I3Connection.close): closing the transport ends the
\* stream: the reader is fed EOF and nothing more is delivered
CloseConn ==
    /\ connClosed' = TRUE
    /\ sockEof' = TRUE
    /\ streamWaiter' = IF sockEof THEN streamWaiter ELSE NoTask
CloseWakes == IF sockEof THEN <<>> ELSE WakeReader

\* some task or callback closes the connection
ConnClose ==
    /\ Idle
    /\ ~connClosed
    /\ CloseConn
    /\ closeCalls' = [closeCalls EXCEPT !.conn = @ + 1]
    /\ ready' = ready \o CloseWakes
    /\ UNCHANGED <<req, emitted, clickVars, mergeVars, codecVars, statusVars, hubVars, pc, inStep, connVars, inbuf, written, nreplied, nevents,
                   histVars>>

Next ==
    \/ \E t \in Callers : SendEnqueue(t) \/ SendWrite(t)
    \/ \E t \in Callers, again \in BOOLEAN : SendFinish(t, again)
    \/ \E w \in WaitReplyTasks : WaitReplyLoop(w)
    \/ \E e \in Consumers : WaitEventLoop(e)
    \/ \E t \in Tasks : RecvBlock(t) \/ Poll(t)
    \/ \E c \in Callers : ClientStart(c)
    \/ \E e \in Consumers : ConsumerStart(e)
    \/ PeerReply
    \/ PeerEvent(PeerEventNo(nevents + 1)[1], PeerEventNo(nevents + 1)[2])
    \/ PeerClose
    \/ ConnClose

Spec == Init /\ [][Next]_vars

\* the steps the event loop itself takes; the loop runs every runnable task
LoopStep ==
    \/ \E t \in Callers : SendEnqueue(t) \/ SendWrite(t)
    \/ \E t \in Callers, again \in BOOLEAN : SendFinish(t, again)
    \/ \E w \in WaitReplyTasks : WaitReplyLoop(w)
    \/ \E e \in Consumers : WaitEventLoop(e)
    \/ \E t \in Tasks : RecvBlock(t) \/ Poll(t)

\* Spec with the loop's guarantee that a runnable task is eventually run
LiveSpec == Init /\ [][Next]_vars /\ WF_vars(LoopStep)

\* ------------------------------------------- callers that never stop
\* Callers that go on calling for ever make the histories grow without
\* end.  Forget drops what is settled: the frames the peer has answered and
\* the calls that returned; the calls still inside _send keep their order.
\* It touches no field of the connection and no task.
LiveIds == {callId[t] : t \in {c \in Tasks : callId[c] # 0}}
Rank(id) == Cardinality({j \in LiveIds : j <= id})
Forget ==
    /\ Idle
    /\ returned # <<>> \/ nreplied > 0 \/ ncalls > Cardinality(LiveIds)
    /\ returned' = <<>>
    /\ written' = [k \in 1..(Len(written) - nreplied) |->
                      [written[nreplied + k] EXCEPT !.id = Rank(@)]]
    /\ nreplied' = 0
    /\ callId' = [t \in Tasks |-> IF callId[t] = 0 THEN 0 ELSE Rank(callId[t])]
    /\ ncalls' = Cardinality(LiveIds)
    /\ UNCHANGED <<req, emitted, clickVars, mergeVars, codecVars, statusVars,
                   closeCalls, hubVars, pc, ready, inStep, connVars, inbuf,
                   sockEof, connClosed, streamWaiter, nevents, yielded,
                   raised>>

\* the steps of the tasks that send and of the reply readers
SendStep ==
    \/ \E t \in Callers : SendEnqueue(t) \/ SendWrite(t)
    \/ \E t \in Callers, again \in BOOLEAN : SendFinish(t, again)
    \/ \E w \in WaitReplyTasks : WaitReplyLoop(w)
    \/ \E t \in Tasks : RecvBlock(t) \/ Poll(t)

BackToBackNext ==
    \/ SendStep
    \/ \E c \in Callers : ClientStart(c)
    \/ PeerReply
    \/ Forget

\* two tasks call the message methods again and again; the loop runs every
\* runnable task, the peer answers every request, the stream stays open and
\* a _wait_reply task reads it whenever a request is written
BackToBackSpec ==
    Init /\ [][BackToBackNext]_vars /\ WF_vars(SendStep) /\ WF_vars(PeerReply)

\* ------------------------------------------------ a misbehaving peer
\* What the stream reader of _recv (lines 133 and 142) can be fed by a
\* peer that does not keep to the protocol.
PeerWrites(frame) ==
    /\ Idle
    /\ ~sockEof
    /\ inbuf' = Append(inbuf, frame)
    /\ ready' = ready \o WakeReader
    /\ streamWaiter' = NoTask

\* the peer answers the oldest unanswered request with a frame whose first
\* six bytes are not the magic string
PeerBadMagicReply ==
    /\ nreplied < Len(written)
    /\ nreplied' = nreplied + 1
    /\ PeerWrites([ev |-> FALSE, type |-> 0,
                   payload |-> ReplyFor(nreplied + 1), magic |-> BadMagic])
    /\ UNCHANGED <<req, emitted, clickVars, mergeVars, codecVars, statusVars, closeCalls, hubVars, pc, inStep, connVars, connClosed, written, histVars, sockEof, nevents>>

\* the peer emits an event frame whose first six bytes are not the magic
\* string
PeerBadMagicEvent ==
    /\ nevents < MaxEvents
    /\ nevents' = nevents + 1
    /\ PeerWrites([ev |-> TRUE, type |-> PeerEventNo(nevents + 1)[1],
                   payload |-> PeerEventNo(nevents + 1)[2],
                   magic |-> BadMagic])
    /\ UNCHANGED <<req, emitted, clickVars, mergeVars, codecVars, statusVars, closeCalls, hubVars, pc, inStep, connVars, connClosed, written, histVars, sockEof, nreplied>>

\* the peer writes some bytes of a header and closes the socket
PeerTruncate ==
    /\ PeerWrites(PartialHeader)
    /\ sockEof' = TRUE
    /\ UNCHANGED <<req, emitted, clickVars, mergeVars, codecVars, statusVars, closeCalls, hubVars, pc, inStep, connVars, connClosed, written, histVars, nreplied, nevents>>

\* the peer writes a non-event frame although it has answered every request
PeerStray ==
    /\ nreplied = Len(written)
    /\ nevents < MaxEvents
    /\ nevents' = nevents + 1
    /\ PeerWrites([ev |-> FALSE, type |-> 0, payload |-> "stray",
                   magic |-> MAGIC])
    /\ UNCHANGED <<req, emitted, clickVars, mergeVars, codecVars, statusVars, closeCalls, hubVars, pc, inStep, connVars, connClosed, written, histVars, sockEof, nreplied>>

\* the peer answers the oldest unanswered request with a body that is not
\* JSON
PeerBadJson ==
    /\ nreplied < Len(written)
    /\ nreplied' = nreplied + 1
    /\ PeerWrites([ev |-> FALSE, type |-> 0, payload |-> InvalidJson,
                   magic |-> MAGIC])
    /\ UNCHANGED <<req, emitted, clickVars, mergeVars, codecVars, statusVars, closeCalls, hubVars, pc, inStep, connVars, connClosed, written, histVars, sockEof, nevents>>

\* the connection of Spec with a peer that may break the protocol
ProtoNext ==
    \/ \E t \in Callers : SendEnqueue(t) \/ SendWrite(t)
    \/ \E t \in Callers : SendFinish(t, FALSE)
    \/ \E w \in WaitReplyTasks : WaitReplyLoop(w)
    \/ \E e \in Consumers : WaitEventLoop(e)
    \/ \E t \in Tasks : RecvBlock(t) \/ Poll(t)
    \/ \E c \in Callers : ClientStart(c)
    \/ \E e \in Consumers : ConsumerStart(e)
    \/ PeerReply
    \/ PeerEvent(PeerEventNo(nevents + 1)[1], PeerEventNo(nevents + 1)[2])
    \/ PeerClose
    \/ PeerBadMagicReply
    \/ PeerBadMagicEvent
    \/ PeerTruncate
    \/ PeerStray
    \/ PeerBadJson

ProtoSpec == Init /\ [][ProtoNext]_vars

\* ------------------------------------------------ events of every type
\* src/test/test_ipc_protocol.py 34-49: the peer emits an event frame of
\* any type of the catalog, with a payload that goes with the type
EventPayload(ty) == IF ty % 2 = 0 THEN "{}" ELSE "[1]"
PeerAnyEvent == \E ty \in 0..7 : PeerEvent(ty, EventPayload(ty))

\* a task calling wait_event and a task sending commands, on a connection
\* whose peer emits events of every type
EventNext ==
    \/ SendWrite("c1")
    \/ SendFinish("c1", FALSE)
    \/ \E w \in WaitReplyTasks : WaitReplyLoop(w)
    \/ \E e \in Consumers : WaitEventLoop(e)
    \/ \E t \in Tasks : RecvBlock(t) \/ Poll(t)
    \/ ClientStart("c1")
    \/ \E e \in Consumers : ConsumerStart(e)
    \/ PeerReply
    \/ PeerAnyEvent
    \/ PeerClose

EventSpec == Init /\ [][EventNext]_vars

\* ------------------------------------------- calls of message methods
\* the event names "mode" and "tick" as lists of characters
ModeChars == <<109, 111, 100, 101>>
TickChars == <<116, 105, 99, 107>>
\* arguments a client passes to the method called name; None stands for
\* an omitted argument (`arg=None`, line 83)
MethodArgs(name) ==
    LET h == MESSAGES[IndexOf(name)].handler IN
    IF h = "none" THEN {None}
    ELSE IF h = "identity" THEN {"cmd", "border normal"}
    ELSE IF h = "or_empty" THEN {None, "", "bar-0"}
    ELSE {<<>>, <<ModeChars>>, <<ModeChars, TickChars>>}

\* lines 79-85: a client task becomes runnable and will call the method
\* called name with arg
MethodCall(c, name, arg) ==
    /\ Idle
    /\ c \in Callers
    /\ pc[c] = "idle"
    /\ ncalls + Cardinality({t \in Tasks : pc[t] = "send"}) < MaxCalls
    /\ pc' = [pc EXCEPT ![c] = "send"]
    /\ req' = [req EXCEPT ![c] = [name |-> name, arg |-> arg]]
    /\ ready' = Append(ready, c)
    /\ UNCHANGED <<emitted, clickVars, mergeVars, codecVars, statusVars, closeCalls, hubVars, inStep, connVars, sockVars, histVars>>

\* a client task calling the methods of the catalog while another one
\* sends commands, on a connection whose peer answers every request
CallNext ==
    \/ \E t \in Callers : SendEnqueue(t) \/ SendWrite(t)
    \/ \E t \in Callers : SendFinish(t, FALSE)
    \/ \E w \in WaitReplyTasks : WaitReplyLoop(w)
    \/ \E t \in Tasks : RecvBlock(t) \/ Poll(t)
    \/ \E name \in MessageNames :
           \E arg \in MethodArgs(name) : MethodCall("c1", name, arg)
    \/ ClientStart("c2")
    \/ PeerReply

CallSpec == Init /\ [][CallNext]_vars

\* ---------------------------------------------------------------- I3Hub
\* decoded JSON values that Python takes for false
PyFalsy == {None, "{}", "[]", "0", "false", "\"\""}
\* line 390: `payload or 'eof'`
OrEof(p) == IF p \in PyFalsy THEN "eof" ELSE p

\* a _dispatch_i3_events that goes on reading after the shutdown
LoopBreaks_Never == FALSE
\* line 392: `break`
LoopBreaks == TRUE

\* a _dispatch_shutdown without its guard
ShutdownGuard_None == TRUE
\* a _dispatch_shutdown that never dispatches
ShutdownGuard_Never == FALSE
\* line 343: `if not self._i3api._shutting_down`
ShutdownGuard == ~shutting_down

\* a close that does not look at _closed
CloseReturns_Never == FALSE
\* line 434: `if self._closed: return`
CloseReturns == closed

\* lines 433-440 (I3Hub.close)
HubClose ==
    IF CloseReturns
    THEN /\ closeCalls' = [closeCalls EXCEPT !.hub = @ + 1]
         /\ UNCHANGED <<closed, barEof, connClosed, sockEof, streamWaiter>>
    ELSE /\ closed' = TRUE
         /\ barEof' = (barEof \/ run_as_status)
         /\ CloseConn
         /\ closeCalls' = [hub |-> closeCalls.hub + 1,
                           conn |-> closeCalls.conn + 1]
\* feed_data / feed_eof on the i3bar reader wake _read_click_events when
\* it waits in readline
ClickWake ==
    IF pc["click"] \in {"wait_open", "wait_line"}
           /\ \A i \in DOMAIN ready : ready[i] # "click"
    THEN <<"click">> ELSE <<>>
HubCloseWakes ==
    IF CloseReturns THEN <<>>
    ELSE CloseWakes \o (IF run_as_status THEN ClickWake ELSE <<>>)

\* a call of _dispatch_event (or _dispatch_init_event) by task t
StartDispatch(t, event, arg, ctx) ==
    /\ dctx' = [dctx EXCEPT ![t] = [event |-> event, arg |-> arg, idx |-> 1,
                                    ctx |-> ctx]]
    /\ dispatched' = Append(dispatched, [event |-> event, arg |-> arg])
HandlersOf(t) == DictGet(event_handlers, dctx[t].event)

\* a run that does not look at _closed
RunRefuses_Never == FALSE
\* line 405: `if self._closed`
RunRefuses == closed

\* lines 405-414 and 246-297: run refuses a closed hub; otherwise it creates
\* the API wrapper, discovers the handlers and calls subscribe
RunBegin(created) ==
    /\ Running("run")
    /\ pc["run"] = "start"
    /\ IF RunRefuses
       THEN /\ pc' = [pc EXCEPT !["run"] = "dead"]
            /\ raised' = raised \cup {"AlreadyClosed"}
            /\ Suspend(<<>>)
            /\ UNCHANGED <<shutting_down, event_handlers, registered>>
       ELSE /\ shutting_down' = FALSE
            /\ event_handlers' = DiscoverAll(EmptyReg, extensions).handlers
            /\ registered' = DiscoverAll(EmptyReg, extensions).names
            /\ pc' = [t \in Tasks |->
                         IF t = "run" THEN "send"
                         ELSE IF \E i \in DOMAIN created : created[i] = t
                         THEN "refresh" ELSE pc[t]]
            /\ raised' = raised
            /\ Continue(created)
    /\ UNCHANGED <<req, emitted, clickVars, mergeVars, codecVars, statusVars, closeCalls, connVars, sockVars, callId, ncalls, returned, yielded,
                   closed, extensions, run_as_status, barOut, barEof, dctx,
                   invoked, dispatched>>

\* run with extensions whose constructors do nothing but keep the API
RunStart == RunBegin(<<>>)

\* lines 408-409 (refresh_i3bar_cb): create_task(_output_updated_status())
IsRefresh(d) == d.event = <<"i3hub", "i3bar_refresh">>
FreeRefreshTask == CHOOSE s \in RefreshTasks : pc[s] = "free"
\* refresh_i3bar calls so far
NRefresh ==
    Len(SelectSeq(dispatched, IsRefresh))
        + Cardinality({s \in RefreshTasks : pc[s] = "refresh"})

\* lines 259-261: discovery instantiates the class extensions of a module,
\* `cls(self._i3api)`, and a constructor calls refresh_i3bar()
HasClassExtension ==
    \E i \in DOMAIN extensions :
        extensions[i].module /\ extensions[i].classes # <<>>
RunStartCtorRefresh ==
    /\ ~RunRefuses
    /\ HasClassExtension
    /\ NRefresh < MaxRefresh
    /\ RunBegin(<<FreeRefreshTask>>)

\* run() is called once more on a hub that ran and was closed
\* (src/test/test_i3hub.py lines 56-58)
RunAgain ==
    /\ Idle
    /\ pc["run"] \in {"done", "dead"}
    /\ closed
    /\ "AlreadyClosed" \notin raised
    /\ pc' = [pc EXCEPT !["run"] = "start"]
    /\ ready' = Append(ready, "run")
    /\ UNCHANGED <<req, emitted, clickVars, mergeVars, codecVars, statusVars, closeCalls, inStep, connVars, sockVars, histVars, hubVars>>

\* lines 415-424: subscribe returned; start _run_status and wait for it, or
\* go straight to the init event
RunSubscribed ==
    /\ Running("run")
    /\ pc["run"] = "subscribed"
    /\ IF run_as_status
       THEN /\ pc' = [pc EXCEPT !["run"] = "await_status", !["status"] = "start"]
            /\ Suspend(<<"status">>)
            /\ UNCHANGED <<dctx, dispatched>>
       ELSE /\ pc' = [pc EXCEPT !["run"] = "dispatch"]
            /\ StartDispatch("run", <<"i3hub", "init">>, "init", "init")
            /\ Continue(<<>>)
    /\ UNCHANGED <<req, emitted, clickVars, mergeVars, codecVars, statusVars, closeCalls, connVars, sockVars, histVars, closed, shutting_down,
                   extensions, run_as_status, event_handlers, registered,
                   barOut, barEof, invoked>>

\* what is written to the i3bar writer: the header object, the opening
\* bracket, a comma, or a status array with its newline
HeaderLine == [kind |-> "header", items |-> <<>>]
OpenBracket == [kind |-> "open", items |-> <<>>]
Comma == [kind |-> "comma", items |-> <<>>]
ArrayLine(a) == [kind |-> "line", items |-> a]

\* lines 370-383 (_run_status): start _read_click_events (i3hub_main gives
\* a status command its i3bar reader), write the header and the opening
\* bracket, resolve status_ready
RunStatus ==
    /\ Running("status")
    /\ pc["status"] = "start"
    /\ barOut' = barOut \o <<HeaderLine, OpenBracket>>
    /\ pc' = [pc EXCEPT !["status"] = "done", !["click"] = "start"]
    /\ Suspend(<<"click", "run">>)
    /\ UNCHANGED <<req, emitted, clickVars, mergeVars, codecVars, statusVars, closeCalls, connVars, sockVars, histVars, closed, shutting_down,
                   extensions, run_as_status, event_handlers, registered,
                   barEof, dctx, invoked, dispatched>>

\* lines 423-425: status_ready resolved, dispatch the init event
RunInit ==
    /\ Running("run")
    /\ pc["run"] = "await_status"
    /\ pc' = [pc EXCEPT !["run"] = "dispatch"]
    /\ StartDispatch("run", <<"i3hub", "init">>, "init", "init")
    /\ Continue(<<>>)
    /\ UNCHANGED <<req, emitted, clickVars, mergeVars, codecVars, statusVars, closeCalls, connVars, sockVars, histVars, closed, shutting_down,
                   extensions, run_as_status, event_handlers, registered,
                   barOut, barEof, invoked>>

\* ----------------------------------------------------- I3ApiWrapper
\* a wrapper that does not look at _shutting_down
WrapperRefuses_Never == FALSE
\* line 178: `if self._shutting_down`
WrapperRefuses == shutting_down

\* lines 407-412: the wrapper exists from the start of run, which calls
\* subscribe, the first _send on the connection, in the same step
ApiExists == ncalls > 0

\* a task of an extension becomes runnable and will call a message method
\* of the wrapper it was given
ApiStart(c) ==
    /\ Idle
    /\ c \in Callers
    /\ pc[c] \in {"off", "idle"}
    /\ ApiExists
    /\ ncalls + Cardinality({t \in Callers : pc[t] \in {"call", "send"}}) < MaxCalls
    /\ pc' = [pc EXCEPT ![c] = "call"]
    /\ ready' = Append(ready, c)
    /\ UNCHANGED <<req, emitted, clickVars, mergeVars, codecVars, statusVars, closeCalls, inStep, connVars, sockVars, histVars, hubVars>>

\* lines 177-180 (wrapper): raise when shutting down, otherwise call the
\* connection's method, whose _send starts in the same step
ApiCall(c) ==
    /\ Running(c)
    /\ pc[c] = "call"
    /\ IF WrapperRefuses
       THEN /\ pc' = [pc EXCEPT ![c] = Dead(c)]
            /\ raised' = raised \cup {"ShuttingDown"}
            /\ Suspend(<<>>)
       ELSE /\ pc' = [pc EXCEPT ![c] = "send"]
            /\ raised' = raised
            /\ Continue(<<>>)
    /\ UNCHANGED <<req, emitted, clickVars, mergeVars, codecVars, statusVars, closeCalls, connVars, sockVars, callId, ncalls, returned,
                   yielded, hubVars>>

\* what a handler coroutine does when it is awaited: it returns, suspends
\* on something of its own, or raises; "refresh" is a handler that calls
\* refresh_i3bar() and returns.  A handler of i3hub::i3bar_refresh that
\* does not raise adds its item to the status array it was given.
Outcomes == {"return", "suspend", "raise"}

\* handler h is a member of extension ext or of one of its classes
Holds(ext, h) ==
    \/ \E i \in DOMAIN ext.handlers : ext.handlers[i].h = h
    \/ \E c \in DOMAIN ext.classes :
           \E i \in DOMAIN ext.classes[c].handlers :
               ext.classes[c].handlers[i].h = h
\* handler.__module__ split at the dots: load_extensions (line 509) loads
\* the extension called name as the module i3hub.extensions.<name>
ModuleOf(h) ==
    <<"i3hub", "extensions",
      extensions[CHOOSE i \in DOMAIN extensions : Holds(extensions[i], h)].name>>
\* line 314: `module_name.split('.')[2]`
SectionName(module_name) == module_name[3]
\* lines 317-320: the argument of the init event, the config section
\* standing for its options
InitArg(h) ==
    [running_as_status |-> run_as_status,
     config |-> SectionName(ModuleOf(h))]
\* src/test/extension.py 55-57: a handler of an extension event appends
\* its data to the list it is given
Mutated(t) ==
    IF dctx[t].ctx = "emit"
    THEN Append(dctx[t].arg, HandlersOf(t)[dctx[t].idx])
    ELSE dctx[t].arg
\* the argument the next handler of task t is invoked with
InvokeArg(t) ==
    IF dctx[t].ctx = "init" THEN InitArg(HandlersOf(t)[dctx[t].idx])
    ELSE dctx[t].arg

\* lines 299-308 and 312-320: the next handler of the event is awaited; it
\* returns, or suspends on something of its own, or raises, and what it
\* raises leaves the dispatching coroutine
Invoke(t, o) ==
    /\ Running(t)
    /\ pc[t] = "dispatch"
    /\ dctx[t].idx <= Len(HandlersOf(t))
    /\ invoked' = Append(invoked, [h |-> HandlersOf(t)[dctx[t].idx],
                                   event |-> dctx[t].event,
                                   arg |-> InvokeArg(t)])
    /\ status_array' =
           IF t \in RefreshTasks /\ o # "raise"
           THEN [status_array EXCEPT ![t] = Append(@, HandlersOf(t)[dctx[t].idx])]
           ELSE status_array
    /\ IF o = "return"
       THEN /\ dctx' = [dctx EXCEPT ![t].idx = @ + 1, ![t].arg = Mutated(t)]
            /\ Continue(<<>>)
            /\ UNCHANGED <<pc, raised>>
       ELSE IF o = "refresh"
       THEN /\ NRefresh < MaxRefresh
            /\ dctx' = [dctx EXCEPT ![t].idx = @ + 1]
            /\ pc' = [pc EXCEPT ![FreeRefreshTask] = "refresh"]
            /\ Continue(<<FreeRefreshTask>>)
            /\ raised' = raised
       ELSE IF o = "suspend"
       THEN /\ pc' = [pc EXCEPT ![t] = "in_handler"]
            /\ Suspend(<<>>)
            /\ UNCHANGED <<dctx, raised>>
       ELSE /\ pc' = [pc EXCEPT ![t] = Dead(t)]
            /\ dctx' = [dctx EXCEPT ![t] = NoDispatch]
            /\ raised' = raised \cup {"HandlerError"}
            /\ Suspend(LoopEnded(t))
    /\ UNCHANGED <<req, emitted, clickVars, mergeVars, codecVars, first_status_update, stopped, closeCalls, connVars,
                   sockVars, callId, ncalls, returned, yielded,
                   closed, shutting_down, extensions, run_as_status,
                   event_handlers, registered, barOut, barEof, dispatched>>

\* what a suspended handler waits for happens
HandlerWake(t) ==
    /\ Idle
    /\ pc[t] = "in_handler"
    /\ pc' = [pc EXCEPT ![t] = "resumed"]
    /\ ready' = Append(ready, t)
    /\ UNCHANGED <<req, emitted, clickVars, mergeVars, codecVars, statusVars, closeCalls, inStep, connVars, sockVars, histVars, hubVars>>

\* the resumed handler returns
HandlerReturn(t) ==
    /\ Running(t)
    /\ pc[t] = "resumed"
    /\ pc' = [pc EXCEPT ![t] = "dispatch"]
    /\ dctx' = [dctx EXCEPT ![t].idx = @ + 1, ![t].arg = Mutated(t)]
    /\ Continue(<<>>)
    /\ UNCHANGED <<req, emitted, clickVars, mergeVars, codecVars, statusVars, closeCalls, connVars, sockVars, histVars, closed, shutting_down,
                   extensions, run_as_status, event_handlers, registered,
                   barOut, barEof, invoked, dispatched>>

\* line 307, list exhausted: a task created for one event ends
DispatchEnd(d) ==
    /\ Running(d)
    /\ d \in DispatchTasks
    /\ pc[d] = "dispatch"
    /\ dctx[d].idx > Len(HandlersOf(d))
    /\ pc' = [pc EXCEPT ![d] = "free"]
    /\ dctx' = [dctx EXCEPT ![d] = NoDispatch]
    /\ Suspend(<<>>)
    /\ UNCHANGED <<req, emitted, clickVars, mergeVars, codecVars, statusVars, closeCalls, connVars, sockVars, histVars, closed, shutting_down,
                   extensions, run_as_status, event_handlers, registered,
                   barOut, barEof, invoked, dispatched>>

\* lines 426-429: the init event was dispatched; start _dispatch_i3_events
\* and wait for it in gather.  Line 431: the final shutdown dispatch ended.
RunDispatchEnd ==
    /\ Running("run")
    /\ pc["run"] = "dispatch"
    /\ dctx["run"].idx > Len(HandlersOf("run"))
    /\ dctx' = [dctx EXCEPT !["run"] = NoDispatch]
    /\ IF dctx["run"].ctx = "init"
       THEN /\ pc' = [pc EXCEPT !["run"] = "gather", !["loop"] = "loop"]
            /\ Suspend(<<"loop">>)
       ELSE /\ pc' = [pc EXCEPT !["run"] = "done"]
            /\ Suspend(<<>>)
    /\ UNCHANGED <<req, emitted, clickVars, mergeVars, codecVars, statusVars, closeCalls, connVars, sockVars, histVars, closed, shutting_down,
                   extensions, run_as_status, event_handlers, registered,
                   barOut, barEof, invoked, dispatched>>

FreeDispatchTask == CHOOSE d \in DispatchTasks : pc[d] = "free"
\* the pair wait_event returned to _dispatch_i3_events
LoopEvent == yielded[Len(yielded)]

\* lines 388-395: a shutdown or eof event goes to _dispatch_shutdown, which
\* dispatches i3::shutdown unless the hub is shutting down already; any
\* other event gets a task of its own
LoopHandle ==
    /\ Running("loop")
    /\ pc["loop"] = "handle"
    /\ IF LoopEvent.name \in {"shutdown", "eof"}
       THEN /\ pc' = [pc EXCEPT !["loop"] = "dispatch"]
            /\ shutting_down' = TRUE
            /\ IF ShutdownGuard
               THEN StartDispatch("loop", <<"i3", "shutdown">>,
                                  OrEof(LoopEvent.payload), "shutdown")
               ELSE /\ dctx' = [dctx EXCEPT !["loop"] =
                                   [NoDispatch EXCEPT !.ctx = "shutdown", !.idx = 1]]
                    /\ dispatched' = dispatched
            /\ Continue(<<>>)
       ELSE /\ pc' = [pc EXCEPT !["loop"] = "loop",
                                ![FreeDispatchTask] = "dispatch"]
            /\ StartDispatch(FreeDispatchTask, <<"i3", LoopEvent.name>>,
                             LoopEvent.payload, "event")
            /\ Continue(<<FreeDispatchTask>>)
            /\ shutting_down' = shutting_down
    /\ UNCHANGED <<req, emitted, clickVars, mergeVars, codecVars, statusVars, closeCalls, connVars, sockVars, histVars, closed, extensions,
                   run_as_status, event_handlers, registered, barOut, barEof,
                   invoked>>

\* lines 391-392: _dispatch_shutdown returned; close the hub and leave the
\* loop, which ends the task and resolves gather
LoopShutdownDone ==
    /\ Running("loop")
    /\ pc["loop"] = "dispatch"
    /\ dctx["loop"].idx > Len(HandlersOf("loop"))
    /\ dctx' = [dctx EXCEPT !["loop"] = NoDispatch]
    /\ HubClose
    /\ IF LoopBreaks
       THEN /\ pc' = [pc EXCEPT !["loop"] = "done"]
            /\ ready' = Tail(ready) \o HubCloseWakes \o <<"run">>
            /\ inStep' = FALSE
       ELSE /\ pc' = [pc EXCEPT !["loop"] = "loop"]
            /\ ready' = ready \o HubCloseWakes
            /\ inStep' = TRUE
    /\ UNCHANGED <<req, emitted, clickVars, mergeVars, codecVars, statusVars, connVars, inbuf, written, nreplied, nevents, histVars,
                   shutting_down, extensions, run_as_status, event_handlers,
                   registered, barOut, invoked, dispatched>>

\* lines 429-431: gather resolved.  The exception of _dispatch_i3_events is
\* raised out of run; otherwise _dispatch_shutdown('close') is called
RunGathered ==
    /\ Running("run")
    /\ pc["run"] = "gather"
    /\ IF pc["loop"] = "dead"
       THEN /\ pc' = [pc EXCEPT !["run"] = "dead"]
            /\ Suspend(<<>>)
            /\ UNCHANGED <<shutting_down, dctx, dispatched>>
       ELSE IF ShutdownGuard
       THEN /\ shutting_down' = TRUE
            /\ pc' = [pc EXCEPT !["run"] = "dispatch"]
            /\ StartDispatch("run", <<"i3", "shutdown">>, "close", "close")
            /\ Continue(<<>>)
       ELSE /\ pc' = [pc EXCEPT !["run"] = "done"]
            /\ Suspend(<<>>)
            /\ UNCHANGED <<shutting_down, dctx, dispatched>>
    /\ UNCHANGED <<req, emitted, clickVars, mergeVars, codecVars, statusVars, closeCalls, connVars, sockVars, histVars, closed, extensions,
                   run_as_status, event_handlers, registered, barOut, barEof,
                   invoked>>

\* --------------------------------------------- I3ApiWrapper.emit_event
IsEmit(d) == d.event[1] = "extension"
\* a task of an extension becomes runnable and will call emit_event
EmitStart ==
    /\ Idle
    /\ pc["emit"] = "off"
    /\ ApiExists
    /\ Len(SelectSeq(dispatched, IsEmit)) < MaxEmits
    /\ pc' = [pc EXCEPT !["emit"] = "call"]
    /\ ready' = Append(ready, "emit")
    /\ UNCHANGED <<req, emitted, clickVars, mergeVars, codecVars, statusVars, closeCalls, inStep, connVars, sockVars, histVars, hubVars>>

\* lines 211-212 and 306: emit_event(ev, []) awaits
\* _dispatch_event('extension::' + ev, arg)
EmitCall(ev) ==
    /\ Running("emit")
    /\ pc["emit"] = "call"
    /\ pc' = [pc EXCEPT !["emit"] = "dispatch"]
    /\ StartDispatch("emit", <<"extension", ev>>, <<>>, "emit")
    /\ Continue(<<>>)
    /\ UNCHANGED <<emitted, req, clickVars, mergeVars, codecVars, statusVars, closeCalls, connVars, sockVars, histVars, closed, shutting_down, extensions, run_as_status, event_handlers, registered, barOut, barEof, invoked>>

\* line 307, list exhausted: emit_event returns to the task, which looks
\* at the list it passed
EmitEnd ==
    /\ Running("emit")
    /\ pc["emit"] = "dispatch"
    /\ dctx["emit"].idx > Len(HandlersOf("emit"))
    /\ emitted' = Append(emitted, [event |-> dctx["emit"].event,
                                   arg |-> dctx["emit"].arg])
    /\ pc' = [pc EXCEPT !["emit"] = "off"]
    /\ dctx' = [dctx EXCEPT !["emit"] = NoDispatch]
    /\ Suspend(<<>>)
    /\ UNCHANGED <<req, clickVars, mergeVars, codecVars, statusVars, closeCalls, connVars, sockVars, histVars, closed, shutting_down, extensions, run_as_status, event_handlers, registered, barOut, barEof, invoked, dispatched>>

\* lines 589-592 (setup_signals): SIGINT or SIGTERM calls hub.close()
SignalClose ==
    /\ Idle
    /\ closeCalls.hub < MaxCloses
    /\ HubClose
    /\ ready' = ready \o HubCloseWakes
    /\ UNCHANGED <<req, emitted, clickVars, mergeVars, codecVars, statusVars, pc, inStep, connVars, inbuf, written, nreplied, nevents,
                   histVars, shutting_down, extensions, run_as_status,
                   event_handlers, registered, barOut, dctx, invoked,
                   dispatched>>

\* line 333: `status_array = []`
FreshArray(s) == <<>>

\* lines 329-334 (_output_updated_status): a comma unless this is the
\* first update, a fresh array, and the dispatch of i3hub::i3bar_refresh
RefreshBegin(s) ==
    /\ Running(s)
    /\ s \in RefreshTasks
    /\ pc[s] = "refresh"
    /\ IF first_status_update
       THEN /\ first_status_update' = FALSE
            /\ barOut' = barOut
       ELSE /\ first_status_update' = first_status_update
            /\ barOut' = Append(barOut, Comma)
    /\ status_array' = [status_array EXCEPT ![s] = FreshArray(s)]
    /\ pc' = [pc EXCEPT ![s] = "dispatch"]
    /\ StartDispatch(s, <<"i3hub", "i3bar_refresh">>, "status_array", "refresh")
    /\ Continue(<<>>)
    /\ UNCHANGED <<req, emitted, clickVars, mergeVars, codecVars, stopped, closeCalls, connVars, sockVars, histVars, closed,
                   shutting_down, extensions, run_as_status, event_handlers,
                   registered, barEof, invoked>>

\* lines 335-338: the dispatch returned; write the array and a newline
RefreshEnd(s) ==
    /\ Running(s)
    /\ s \in RefreshTasks
    /\ pc[s] = "dispatch"
    /\ dctx[s].idx > Len(HandlersOf(s))
    /\ barOut' = Append(barOut, ArrayLine(status_array[s]))
    /\ pc' = [pc EXCEPT ![s] = "free"]
    /\ dctx' = [dctx EXCEPT ![s] = NoDispatch]
    /\ Suspend(<<>>)
    /\ UNCHANGED <<req, emitted, clickVars, mergeVars, codecVars, statusVars, closeCalls, connVars, sockVars, histVars, closed,
                   shutting_down, extensions, run_as_status, event_handlers,
                   registered, barEof, invoked, dispatched>>

\* a callback or task of an extension calls refresh_i3bar() on the API
\* wrapper it was given
RefreshTrigger ==
    /\ Idle
    /\ ApiExists
    /\ NRefresh < MaxRefresh
    /\ pc' = [pc EXCEPT ![FreeRefreshTask] = "refresh"]
    /\ ready' = Append(ready, FreeRefreshTask)
    /\ UNCHANGED <<req, emitted, clickVars, mergeVars, codecVars, statusVars, closeCalls, inStep, connVars, sockVars, histVars,
                   hubVars>>

IsSuspend(d) == d.event = <<"i3hub", "i3bar_suspend">>
IsResume(d) == d.event = <<"i3hub", "i3bar_resume">>

\* lines 593-595 (setup_signals) and 322-323: i3bar, which learnt the
\* signal numbers from the header, sends the stop signal; the handler
\* creates a task that dispatches i3hub::i3bar_suspend
StopSignal ==
    /\ Idle
    /\ run_as_status
    /\ pc["status"] = "done"
    /\ ~stopped
    /\ Len(SelectSeq(dispatched, IsSuspend)) < MaxStops
    /\ \E d \in DispatchTasks : pc[d] = "free"
    /\ stopped' = TRUE
    /\ pc' = [pc EXCEPT ![FreeDispatchTask] = "dispatch"]
    /\ StartDispatch(FreeDispatchTask, <<"i3hub", "i3bar_suspend">>, None, "signal")
    /\ ready' = Append(ready, FreeDispatchTask)
    /\ UNCHANGED <<req, emitted, clickVars, mergeVars, codecVars, first_status_update, status_array, closeCalls, inStep,
                   connVars, sockVars, histVars, closed, shutting_down,
                   extensions, run_as_status, event_handlers, registered,
                   barOut, barEof, invoked>>

\* lines 596-597 and 325-326: i3bar sends the cont signal; the handler
\* creates a task that dispatches i3hub::i3bar_resume
ContSignal ==
    /\ Idle
    /\ run_as_status
    /\ stopped
    /\ \E d \in DispatchTasks : pc[d] = "free"
    /\ stopped' = FALSE
    /\ pc' = [pc EXCEPT ![FreeDispatchTask] = "dispatch"]
    /\ StartDispatch(FreeDispatchTask, <<"i3hub", "i3bar_resume">>, None, "signal")
    /\ ready' = Append(ready, FreeDispatchTask)
    /\ UNCHANGED <<req, emitted, clickVars, mergeVars, codecVars, first_status_update, status_array, closeCalls, inStep,
                   connVars, sockVars, histVars, closed, shutting_down,
                   extensions, run_as_status, event_handlers, registered,
                   barOut, barEof, invoked>>

\* ------------------------------------------------------ the frame codec
\* Bytes are 0..255, a text is the sequence of its code points.  A 32-bit
\* word is kept as its four bytes, least significant first (struct's '='
\* native order on the machines i3 runs on), so that a tag with bit 31 set
\* never has to be held in one integer.
HEADER_SIZE == 14
\* the 31 low bits of a word and its bit 31, packed by struct.pack('I')
Pack32(low, high) ==
    <<low % 256, (low \div 256) % 256, (low \div 65536) % 256,
      (low \div 16777216) + (IF high THEN 128 ELSE 0)>>
\* a mask that keeps 24 bits of the type
TypeMask_24(w) == w[1] + 256 * w[2] + 65536 * w[3]
\* line 140: `msg_type &= 0x7fffffff`
TypeMask(w) == w[1] + 256 * w[2] + 65536 * w[3] + 16777216 * (w[4] % 128)
\* line 139: `msg_type & 0x80000000`, 0 or 2^31, kept as its truth value
EventBit(w) == w[4] >= 128
\* the length word of a header (always below 2^31 here)
Unpack32(w) == w[1] + 256 * w[2] + 65536 * w[3] + 16777216 * w[4]

\* str.encode('utf-8') for code points below 2^16
RECURSIVE Utf8Encode(_)
Utf8Encode(text) ==
    IF text = <<>> THEN <<>>
    ELSE LET c == Head(text)
             b == IF c < 128 THEN <<c>>
                  ELSE IF c < 2048
                  THEN <<192 + (c \div 64), 128 + (c % 64)>>
                  ELSE <<224 + (c \div 4096), 128 + ((c \div 64) % 64),
                         128 + (c % 64)>>
         IN  b \o Utf8Encode(Tail(text))
IsCont(b) == b >= 128 /\ b < 192
\* bytes.decode('utf-8', 'replace'): a malformed sequence gives U+FFFD
RECURSIVE Utf8Decode(_)
Utf8Decode(bytes) ==
    IF bytes = <<>> THEN <<>>
    ELSE LET b == Head(bytes) IN
         IF b < 128 THEN <<b>> \o Utf8Decode(Tail(bytes))
         ELSE IF b >= 194 /\ b < 224 /\ Len(bytes) >= 2 /\ IsCont(bytes[2])
         THEN <<(b - 192) * 64 + (bytes[2] - 128)>>
                  \o Utf8Decode(SubSeq(bytes, 3, Len(bytes)))
         ELSE IF b >= 224 /\ b < 240 /\ Len(bytes) >= 3 /\ IsCont(bytes[2])
                  /\ IsCont(bytes[3]) /\ (b > 224 \/ bytes[2] >= 160)
         THEN <<(b - 224) * 4096 + (bytes[2] - 128) * 64 + (bytes[3] - 128)>>
                  \o Utf8Decode(SubSeq(bytes, 4, Len(bytes)))
         ELSE <<65533>> \o Utf8Decode(Tail(bytes))

\* json.loads for this fragment
IsStringText(t) ==
    /\ Len(t) >= 2
    /\ t[1] = Quote /\ t[Len(t)] = Quote
    /\ \A i \in 2..(Len(t) - 1) : t[i] \notin {Quote, 92} /\ t[i] >= 32
\* the pieces of a text between its commas (no commas inside the strings)
RECURSIVE SplitCommas(_, _)
SplitCommas(t, acc) ==
    IF t = <<>> THEN <<acc>>
    ELSE IF Head(t) = CommaChar THEN <<acc>> \o SplitCommas(Tail(t), <<>>)
    ELSE SplitCommas(Tail(t), Append(acc, Head(t)))
JsonParse(t) ==
    IF t = <<110, 117, 108, 108>> THEN JNull
    ELSE IF IsStringText(t) THEN JStr(SubSeq(t, 2, Len(t) - 1))
    ELSE IF Len(t) >= 2 /\ t[1] = 91 /\ t[Len(t)] = 93
    THEN LET inner == SubSeq(t, 2, Len(t) - 1)
             parts == SplitCommas(inner, <<>>)
         IN  IF inner = <<>> THEN JList(<<>>)
             ELSE IF \A i \in DOMAIN parts : IsStringText(parts[i])
             THEN JList([i \in DOMAIN parts |->
                            SubSeq(parts[i], 2, Len(parts[i]) - 1)])
             ELSE JError
    ELSE JError

\* a header whose length word counts characters
BodyLength_Chars(text) == Len(text)
\* line 110: `len(body)` of the encoded body
BodyLength(text) == Len(Utf8Encode(text))

\* src/test/util.py i3msg / i3event and lines 108-111 (_send_now): magic,
\* length, type with the event flag in bit 31, body
EncodeFrame(type, event, text) ==
    MAGIC \o Pack32(BodyLength(text), FALSE) \o Pack32(type, event)
          \o Utf8Encode(text)

\* lines 130-147 (_recv) on a stream that holds bytes and then ends:
\* 'eof' when the header or the body is short, otherwise the type, the
\* event flag and the decoded payload
DecodeFrame(bytes) ==
    IF Len(bytes) < HEADER_SIZE THEN <<"eof", None, None>>
    ELSE LET msg_length == Unpack32(SubSeq(bytes, 7, 10))
             tag == SubSeq(bytes, 11, 14)
         IN  IF Len(bytes) < HEADER_SIZE + msg_length
             THEN <<"eof", None, None>>
             ELSE <<TypeMask(tag), EventBit(tag),
                    JsonParse(Utf8Decode(SubSeq(bytes, HEADER_SIZE + 1,
                                                HEADER_SIZE + msg_length)))>>

\* type indices, and payloads with characters of one, two and three bytes
CodecTypes == {0, 1, 10, 255, 256, 65536, 16777216, 2147483647}
CodecStrings == {<<>>, <<97>>, <<233>>, <<8364, 97>>}
CodecPayloads ==
    {JNull} \cup {JStr(c) : c \in CodecStrings}
            \cup {JList(<<>>)} \cup {JList(<<c>>) : c \in CodecStrings}
            \cup {JList(<<<<97>>, <<233>>>>)}

\* a frame is built and written to the stream
CodecSend(type, event, payload) ==
    /\ c_wire = <<>>
    /\ c_in' = <<type, event, payload>>
    /\ c_wire' = EncodeFrame(type, event, JsonDumps(payload))
    /\ UNCHANGED <<emitted, pc, ready, inStep, connVars, sockVars, histVars, hubVars,
                   closeCalls, statusVars, req, clickVars, mergeVars, c_out>>

\* _recv reads the frame from the stream
CodecRecv ==
    /\ c_wire # <<>>
    /\ c_out' = DecodeFrame(c_wire)
    /\ c_wire' = <<>>
    /\ UNCHANGED <<emitted, pc, ready, inStep, connVars, sockVars, histVars, hubVars,
                   closeCalls, statusVars, req, clickVars, mergeVars, c_in>>

CodecInit ==
    /\ InitConn
    /\ InitHub
    /\ InitPure
    /\ pc = [t \in Tasks |-> "off"]
    /\ ready = <<>>
    /\ extensions = <<>>
    /\ run_as_status = FALSE

CodecNext ==
    \/ \E type \in CodecTypes, event \in BOOLEAN, payload \in CodecPayloads :
           CodecSend(type, event, payload)
    \/ CodecRecv

CodecSpec == CodecInit /\ [][CodecNext]_vars

\* ------------------------------------------------- status_array_merge
\* A Python dict is the sequence of its (key, value) pairs in insertion
\* order; a status array is a sequence of dicts.
HasKey(d, k) == \E i \in DOMAIN d : d[i][1] = k
\* d[k]
Item(d, k) == d[CHOOSE i \in DOMAIN d : d[i][1] = k][2]
\* d[k] = v: a key the dict has keeps its place, a new key goes last
SetItem(d, k, v) ==
    IF HasKey(d, k)
    THEN [i \in DOMAIN d |-> IF d[i][1] = k THEN <<k, v>> ELSE d[i]]
    ELSE Append(d, <<k, v>>)
\* an update that replaces the dict by the other
DictUpdate_Replace(d, e) == e
\* dict.update(e): every pair of e, in e's order
RECURSIVE DictUpdate(_, _)
DictUpdate(d, e) ==
    IF e = <<>> THEN d
    ELSE DictUpdate(SetItem(d, Head(e)[1], Head(e)[2]), Tail(e))

\* a search that finds nothing
FirstNamed_None(arr, item) == 0
\* lines 485-489: the index of the first element with item's name, 0 when
\* the loop ends without a match
FirstNamed(arr, item) ==
    IF \E i \in DOMAIN arr : Item(arr[i], "name") = Item(item, "name")
    THEN CHOOSE i \in DOMAIN arr :
             /\ Item(arr[i], "name") = Item(item, "name")
             /\ \A j \in 1..(i - 1) : Item(arr[j], "name") # Item(item, "name")
    ELSE 0
\* an insert at the end of the array
InsertFirst_Last(arr, item) == Append(arr, item)
\* line 491: `status_array.insert(0, item)`
InsertFirst(arr, item) == <<item>> \o arr

\* lines 483-491
status_array_merge(arr, item) ==
    LET k == FirstNamed(arr, item) IN
    IF k # 0 THEN [arr EXCEPT ![k] = DictUpdate(arr[k], item)]
    ELSE InsertFirst(arr, item)

\* the items extensions merge: i3bar blocks with a name and some fields
MergeItems ==
    {<<<<"name", n>>, <<"full_text", t>>>> : n \in {"cpu", "mem"}, t \in {"5%", "9%"}}
      \cup {<<<<"name", n>>, <<"full_text", "5%">>, <<"color", c>>>> :
                n \in {"cpu", "mem"}, c \in {"red", "blue"}}
      \cup {<<<<"color", "red">>, <<"name", n>>>> : n \in {"cpu", "mem"}}
\* the arrays the calls start from: empty, or what handlers appended
MergeArrays ==
    {<<>>}
      \cup {<<a>> : a \in {<<<<"name", "cpu">>, <<"full_text", "1%">>>>,
                           <<<<"name", "mem">>, <<"color", "blue">>,
                             <<"full_text", "1%">>>>}}
      \cup {<<<<<<"name", "mem">>, <<"full_text", "1%">>>>,
               <<<<"name", "cpu">>, <<"full_text", "1%">>, <<"color", "blue">>>>,
               <<<<"name", "cpu">>, <<"full_text", "2%">>>>>>}

\* an extension calls status_array_merge(status_array, item)
MergeCall(item) ==
    /\ Len(m_log.items) < MaxMerges
    /\ m_array' = status_array_merge(m_array, item)
    /\ m_log' = [m_log EXCEPT !.items = Append(@, item)]
    /\ UNCHANGED <<emitted, pc, ready, inStep, connVars, sockVars, histVars, hubVars,
                   closeCalls, statusVars, req, clickVars, codecVars>>

MergeInit ==
    /\ InitConn
    /\ InitHub
    /\ pc = [t \in Tasks |-> "off"]
    /\ ready = <<>>
    /\ extensions = <<>>
    /\ run_as_status = FALSE
    /\ c_in = <<>>
    /\ c_wire = <<>>
    /\ c_out = <<>>
    /\ m_array \in MergeArrays
    /\ m_log = [start |-> m_array, items |-> <<>>]

MergeNext == \E item \in MergeItems : MergeCall(item)

MergeSpec == MergeInit /\ [][MergeNext]_vars

\* ------------------------------------------- I3Hub._read_click_events
\* The text of a line is the sequence of its characters, the newline left
\* out.  json.loads accepts the texts of JsonTexts and raises
\* JSONDecodeError for any other.
BracketLine == <<"[">>
JsonTexts == {<<"[", "1", "]">>, <<"[", "2", "]">>, <<"{", "}">>}
MalformedText == <<"[", "1">>
IsJson(text) == text \in JsonTexts
JsonLoads(text) ==
    IF text = <<"[", "1", "]">> THEN "[1]"
    ELSE IF text = <<"[", "2", "]">> THEN "[2]"
    ELSE "{}"
\* lines 355-359: `line = line[1:]` for every line but the first
StripComma(first, line) == IF first THEN line ELSE Tail(line)

\* line 349: `await self._i3bar_reader.readline()`, the opening bracket
ClickOpen ==
    /\ Running("click")
    /\ pc["click"] \in {"start", "wait_open"}
    /\ IF clickIn # <<>>
       THEN /\ clickIn' = Tail(clickIn)
            /\ pc' = [pc EXCEPT !["click"] = "loop"]
            /\ Continue(<<>>)
       ELSE IF barEof
       THEN /\ pc' = [pc EXCEPT !["click"] = "loop"]
            /\ Continue(<<>>)
            /\ clickIn' = clickIn
       ELSE /\ pc' = [pc EXCEPT !["click"] = "wait_open"]
            /\ Suspend(<<>>)
            /\ clickIn' = clickIn
    /\ UNCHANGED <<req, emitted, is_first, clickSent, mergeVars, codecVars, statusVars,
                   closeCalls, connVars, sockVars, histVars, hubVars>>

\* lines 351-368: leave the loop at EOF; otherwise read a line, remove the
\* comma of every line but the first, skip a line json.loads rejects, and
\* dispatch i3hub::i3bar_click with the decoded value
ClickLoop ==
    /\ Running("click")
    /\ pc["click"] \in {"loop", "wait_line"}
    /\ IF clickIn = <<>>
       THEN /\ IF barEof
               THEN pc' = [pc EXCEPT !["click"] = "done"]
               ELSE pc' = [pc EXCEPT !["click"] = "wait_line"]
            /\ Suspend(<<>>)
            /\ UNCHANGED <<clickIn, is_first, dctx, dispatched>>
       ELSE LET text == StripComma(is_first, Head(clickIn)) IN
            /\ clickIn' = Tail(clickIn)
            /\ is_first' = FALSE
            /\ Continue(<<>>)
            /\ IF IsJson(text)
               THEN /\ pc' = [pc EXCEPT !["click"] = "dispatch"]
                    /\ StartDispatch("click", <<"i3hub", "i3bar_click">>,
                                     JsonLoads(text), "click")
               ELSE /\ pc' = [pc EXCEPT !["click"] = "loop"]
                    /\ UNCHANGED <<dctx, dispatched>>
    /\ UNCHANGED <<req, emitted, clickSent, mergeVars, codecVars, statusVars,
                   closeCalls, connVars, sockVars, histVars, closed,
                   shutting_down, extensions, run_as_status, event_handlers,
                   registered, barOut, barEof, invoked>>

\* lines 367-368: the handlers of the click returned; read the next line
ClickDispatchEnd ==
    /\ Running("click")
    /\ pc["click"] = "dispatch"
    /\ dctx["click"].idx > Len(HandlersOf("click"))
    /\ pc' = [pc EXCEPT !["click"] = "loop"]
    /\ dctx' = [dctx EXCEPT !["click"] = NoDispatch]
    /\ Continue(<<>>)
    /\ UNCHANGED <<req, emitted, clickVars, mergeVars, codecVars, statusVars,
                   closeCalls, connVars, sockVars, histVars, closed,
                   shutting_down, extensions, run_as_status, event_handlers,
                   registered, barOut, barEof, invoked, dispatched>>

\* the line i3bar writes next: the opening bracket, then one line per
\* click, every one but the first with a leading comma
BarLine(body) ==
    IF clickSent = <<>> THEN BracketLine
    ELSE IF Len(clickSent) = 1 THEN body
    ELSE <<",">> \o body

\* i3bar writes a line to the standard input of the status command
BarInput(body) ==
    /\ Idle
    /\ run_as_status
    /\ ~barEof
    /\ Len(clickSent) <= MaxClicks
    /\ clickIn' = Append(clickIn, BarLine(body))
    /\ clickSent' = Append(clickSent, BarLine(body))
    /\ ready' = ready \o ClickWake
    /\ UNCHANGED <<req, emitted, is_first, mergeVars, codecVars, statusVars, closeCalls,
                   pc, inStep, connVars, sockVars, histVars, hubVars>>

\* i3bar closes the standard input of the status command
BarInputEof ==
    /\ Idle
    /\ run_as_status
    /\ ~barEof
    /\ barEof' = TRUE
    /\ ready' = ready \o ClickWake
    /\ UNCHANGED <<req, emitted, clickVars, mergeVars, codecVars, statusVars, closeCalls,
                   pc, inStep, connVars, sockVars, histVars, closed,
                   shutting_down, extensions, run_as_status, event_handlers,
                   registered, barOut, dctx, invoked, dispatched>>

\* event frames i3 emits: (type index, JSON payload as decoded)
HubEventFrames == {<<3, "[1]">>, <<0, "[3]">>, <<6, "[1,2]">>, <<6, "{}">>}
\* the event names of the subscribe requests i3 has answered
PeerSubscribed ==
    UNION {written[i].payload :
              i \in {j \in 1..nreplied : written[j].type = 2}}
\* i3 emits events of the types the connection subscribed to
HubPeerEvent ==
    \E f \in HubEventFrames :
        /\ I3_EVENTS[f[1] + 1] \in PeerSubscribed
        /\ PeerEvent(f[1], f[2])

\* lines 600-625 (i3hub_main): a hub over a fresh connection, with or
\* without i3bar streams, and run() scheduled
HubStart ==
    /\ InitConn
    /\ InitHub
    /\ InitPure
    /\ pc = [t \in Tasks |-> IF t = "run" THEN "start"
                              ELSE IF t \in WaitReplyTasks \cup DispatchTasks
                                             \cup RefreshTasks
                              THEN "free" ELSE "off"]
    /\ ready = <<"run">>

HubInit ==
    /\ HubStart
    /\ extensions \in ExtensionLists
    /\ run_as_status \in BOOLEAN

HubNext ==
    \/ SendWrite("run")
    \/ SendFinish("run", FALSE)
    \/ \E w \in WaitReplyTasks : WaitReplyLoop(w)
    \/ WaitEventLoop("loop")
    \/ \E t \in Tasks : RecvBlock(t) \/ Poll(t)
    \/ RunStart
    \/ RunAgain
    \/ RunSubscribed
    \/ RunStatus
    \/ RunInit
    \/ ClickOpen
    \/ ClickLoop
    \/ \E t \in HubTasks, o \in Outcomes : Invoke(t, o)
    \/ \E t \in HubTasks : HandlerWake(t) \/ HandlerReturn(t)
    \/ \E d \in DispatchTasks : DispatchEnd(d)
    \/ RunDispatchEnd
    \/ LoopHandle
    \/ LoopShutdownDone
    \/ RunGathered
    \/ SignalClose
    \/ PeerReply
    \/ HubPeerEvent
    \/ PeerClose

HubSpec == HubInit /\ [][HubNext]_vars

\* the hub with two extensions that listen to init and to an extension
\* event, and a task that emits extension events
ExtInit ==
    /\ HubStart
    /\ extensions = ExtEmit
    /\ run_as_status \in BOOLEAN

\* what the handlers of ExtEmit do: the first may wait for something of
\* its own, both may raise
ExtBehaviour(h) ==
    IF h = "h1" THEN {"return", "suspend", "raise"} ELSE {"return", "raise"}
ExtInvoke(t, o) ==
    /\ pc[t] = "dispatch"
    /\ dctx[t].idx <= Len(HandlersOf(t))
    /\ o \in ExtBehaviour(HandlersOf(t)[dctx[t].idx])
    /\ Invoke(t, o)

ExtNext ==
    \/ SendWrite("run")
    \/ SendFinish("run", FALSE)
    \/ \E w \in WaitReplyTasks : WaitReplyLoop(w)
    \/ WaitEventLoop("loop")
    \/ \E t \in Tasks : RecvBlock(t) \/ Poll(t)
    \/ RunStart
    \/ RunSubscribed
    \/ RunStatus
    \/ RunInit
    \/ ClickOpen
    \/ \E t \in HubTasks, o \in Outcomes : ExtInvoke(t, o)
    \/ \E t \in HubTasks : HandlerWake(t) \/ HandlerReturn(t)
    \/ \E d \in DispatchTasks : DispatchEnd(d)
    \/ RunDispatchEnd
    \/ LoopHandle
    \/ PeerReply
    \/ HubPeerEvent
    \/ EmitStart
    \/ \E ev \in {"custom", "other"} : EmitCall(ev)
    \/ EmitEnd

ExtSpec == ExtInit /\ [][ExtNext]_vars

\* the hub, not a status command, with the extensions of
\* src/test/extension.py, whose tasks call the message methods of the API
\* wrapper while the hub runs; the handlers return without suspending
ApiInit ==
    /\ HubInit
    /\ extensions = ExtPlain
    /\ ~run_as_status

ApiNext ==
    \/ \E t \in Callers \cup {"run"} : SendWrite(t) \/ SendFinish(t, FALSE)
    \/ \E c \in Callers : SendEnqueue(c) \/ ApiStart(c) \/ ApiCall(c)
    \/ \E w \in WaitReplyTasks : WaitReplyLoop(w)
    \/ WaitEventLoop("loop")
    \/ \E t \in Tasks : RecvBlock(t) \/ Poll(t)
    \/ RunStart
    \/ RunSubscribed
    \/ \E t \in HubTasks : Invoke(t, "return")
    \/ \E d \in DispatchTasks : DispatchEnd(d)
    \/ RunDispatchEnd
    \/ LoopHandle
    \/ LoopShutdownDone
    \/ RunGathered
    \/ PeerReply
    \/ HubPeerEvent
    \/ PeerClose

ApiSpec == ApiInit /\ [][ApiNext]_vars

\* the hub, as a status command or not, with extensions whose handlers
\* return, at once or after waiting for something of their own, and a task
\* of an extension that calls the message methods of the wrapper; i3 sends
\* events, a shutdown event among them, and may close the socket, and a
\* signal may call close()
TermInit ==
    /\ HubStart
    /\ extensions = ExtPlain
    /\ run_as_status \in BOOLEAN

\* a handler returns; a handler of i3::shutdown may wait for something of
\* its own first
TermInvoke(t, o) ==
    /\ o = "suspend" => dctx[t].event = <<"i3", "shutdown">>
    /\ Invoke(t, o)

\* the steps of the tasks, which the loop runs whenever they are runnable
TermStep ==
    \/ \E t \in {"c1", "run"} : SendWrite(t) \/ SendFinish(t, FALSE)
    \/ SendEnqueue("c1") \/ ApiCall("c1")
    \/ \E w \in WaitReplyTasks : WaitReplyLoop(w)
    \/ WaitEventLoop("loop")
    \/ \E t \in Tasks : RecvBlock(t) \/ Poll(t)
    \/ RunStart
    \/ RunSubscribed
    \/ RunStatus
    \/ RunInit
    \/ ClickOpen
    \/ ClickLoop
    \/ \E t \in HubTasks, o \in {"return", "suspend"} : TermInvoke(t, o)
    \/ \E t \in HubTasks : HandlerReturn(t)
    \/ \E d \in DispatchTasks : DispatchEnd(d)
    \/ RunDispatchEnd
    \/ LoopHandle
    \/ LoopShutdownDone
    \/ RunGathered
\* what a suspended handler waits for happens
TermWake == \E t \in HubTasks : HandlerWake(t)

TermNext ==
    \/ TermStep
    \/ TermWake
    \/ ApiStart("c1")
    \/ SignalClose
    \/ PeerReply
    \/ HubPeerEvent
    \/ PeerClose

TermSpec ==
    TermInit /\ [][TermNext]_vars /\ WF_vars(TermStep) /\ WF_vars(TermWake)

\* the hub as the status command of i3bar, with the status extension.
\* What its handlers may do: init_handler calls refresh_i3bar() as in
\* src/test/extension.py, or just returns; the first refresh handler may
\* wait for something, the second may raise, the third returns
StatusOutcomes == Outcomes \cup {"refresh"}
Behaviour(h) ==
    IF h = "init_handler" THEN {"return", "refresh"}
    ELSE IF h = "r1" THEN {"return", "suspend"}
    ELSE IF h = "r2" THEN {"return", "raise"}
    ELSE {"return"}
StatusInvoke(t, o) ==
    /\ pc[t] = "dispatch"
    /\ dctx[t].idx <= Len(HandlersOf(t))
    /\ o \in Behaviour(HandlersOf(t)[dctx[t].idx])
    /\ Invoke(t, o)

StatusInit ==
    /\ HubStart
    /\ extensions = ExtStatus
    /\ run_as_status = TRUE

StatusNext ==
    \/ SendWrite("run")
    \/ SendFinish("run", FALSE)
    \/ \E w \in WaitReplyTasks : WaitReplyLoop(w)
    \/ WaitEventLoop("loop")
    \/ \E t \in Tasks : RecvBlock(t) \/ Poll(t)
    \/ RunStart
    \/ RunStartCtorRefresh
    \/ RunSubscribed
    \/ RunStatus
    \/ RunInit
    \/ ClickOpen
    \/ \E t \in HubTasks, o \in StatusOutcomes : StatusInvoke(t, o)
    \/ \E t \in HubTasks : HandlerWake(t) \/ HandlerReturn(t)
    \/ \E d \in DispatchTasks : DispatchEnd(d)
    \/ \E s \in RefreshTasks : RefreshBegin(s) \/ RefreshEnd(s)
    \/ RefreshTrigger
    \/ StopSignal
    \/ ContSignal
    \/ RunDispatchEnd
    \/ PeerReply

StatusSpec == StatusInit /\ [][StatusNext]_vars

\* the status command with the extension that listens to clicks, and i3bar
\* writing click lines, well-formed or not, to its standard input; the
\* handler of a click returns or raises
ClickInit ==
    /\ HubStart
    /\ extensions = ExtClick
    /\ run_as_status = TRUE

ClickInvoke(t, o) ==
    /\ pc[t] = "dispatch"
    /\ dctx[t].idx <= Len(HandlersOf(t))
    /\ HandlersOf(t)[dctx[t].idx] = "init_handler" => o = "return"
    /\ Invoke(t, o)

ClickNext ==
    \/ SendWrite("run")
    \/ SendFinish("run", FALSE)
    \/ \E w \in WaitReplyTasks : WaitReplyLoop(w)
    \/ WaitEventLoop("loop")
    \/ \E t \in Tasks : RecvBlock(t) \/ Poll(t)
    \/ RunStart
    \/ RunSubscribed
    \/ RunStatus
    \/ RunInit
    \/ ClickOpen
    \/ ClickLoop
    \/ ClickDispatchEnd
    \/ \E t \in HubTasks, o \in {"return", "raise"} : ClickInvoke(t, o)
    \/ RunDispatchEnd
    \/ PeerReply
    \/ \E body \in JsonTexts \cup {MalformedText} : BarInput(body)
    \/ BarInputEof

ClickSpec == ClickInit /\ [][ClickNext]_vars

\* ------------------------------------------------------------- claims
InSend(t) == pc[t] \in {"send_wait", "await_reply"}
IsEvent(e) == e.name # "eof"
\* the event frames _poll has read so far, in the order they were read
EventsInBuf == Cardinality({i \in DOMAIN inbuf : inbuf[i].ev})
EventsRead ==
    [i \in 1..(nevents - EventsInBuf) |->
        EventOf([ev |-> TRUE, type |-> PeerEventNo(i)[1],
                 payload |-> PeerEventNo(i)[2]])]

\* C1: at most one request is in flight: every frame written but the last
\* has had its reply consumed and the slot cleared by its caller, and the
\* last one, while outstanding, is the one that owns the reply slot.
C1_OneInFlight ==
    /\ Len(written) <= Len(returned) + 1
    /\ Len(written) = Len(returned) + 1 =>
           reply.owner = written[Len(written)].by

C1_Witness ==
    /\ Len(returned) >= 1
    /\ Len(written) = Len(returned) + 1
    /\ send_queue # <<>>

\* C2: the k-th reply frame read goes to the caller that wrote the k-th
\* request, and to nobody else: the k-th return of _send is made to the
\* k-th writer with the k-th reply, and a resolved reply slot holds the
\* reply of the oldest request not yet returned.
C2_RepliesMatchWrites ==
    /\ Len(returned) <= Len(written)
    /\ \A k \in 1..Len(returned) :
           /\ k <= Len(written)
           /\ returned[k].by = written[k].by
           /\ returned[k].id = written[k].id
           /\ returned[k].val = ReplyFor(k)
    /\ reply.done =>
           /\ Len(written) = Len(returned) + 1
           /\ reply.owner = written[Len(written)].by
           /\ reply.val = ReplyFor(Len(written))

C2_Witness ==
    /\ Len(returned) = 2
    /\ returned[1].by # returned[2].by
    /\ reply.done

\* C3: request frames are written in the order in which the callers invoked
\* _send.
C3_WritesInCallOrder ==
    \A i, j \in 1..Len(written) : i < j => written[i].id < written[j].id

\* C4: at most one task is inside _recv at any time.
C4_OnePollInFlight == Cardinality({t \in Tasks : pc[t] = "recv"}) <= 1

\* C5: the events wait_event has returned, followed by the events still
\* queued, are exactly the event frames read, each once, in arrival order.
C5_EventsFifo ==
    SelectSeq(yielded \o event_queue, IsEvent) = EventsRead

\* two events were returned, the second one read by a _wait_reply task
\* while a request was waiting for its reply
C5_Witness ==
    /\ Len(yielded) = 1
    /\ Len(event_queue) = 1
    /\ reply.owner # NoTask /\ ~reply.done
    /\ \E w \in WaitReplyTasks : Running(w) /\ inStep /\ pc[w] = "loop"

\* C6: a call that is suspended in _send when the stream has ended does not
\* stay suspended for ever.
C6_NoCallHangsAfterEof ==
    \A c \in Callers : (sockEof /\ InSend(c)) ~> ~InSend(c)

\* C7: run writes at most one subscribe request; it carries exactly the i3
\* event names that the registered handlers listen to; and once the init
\* event is dispatched or _dispatch_i3_events is started, the request has
\* been written and its reply has been returned to run.
SubscribeFrames == {i \in 1..Len(written) : written[i].type = 2}
ListenedI3Events ==
    {e[2] : e \in {k \in DOMAIN event_handlers :
                      k[1] = "i3" /\ event_handlers[k] # <<>>}}
C7_SubscribeOnceBeforeEvents ==
    /\ Cardinality(SubscribeFrames) <= 1
    /\ \A i \in SubscribeFrames :
           /\ written[i].by = "run"
           /\ written[i].payload = ListenedI3Events
    /\ (dispatched # <<>> \/ pc["loop"] # "off") =>
           /\ Cardinality(SubscribeFrames) = 1
           /\ \E k \in 1..Len(returned) : returned[k].by = "run"

\* running as status command with both extensions registered: the
\* subscription is the union over two handlers, and events are being read
C7_Witness ==
    /\ Len(written) = 1
    /\ written[1].payload = {"window", "shutdown", "workspace"}
    /\ Len(invoked) >= 1
    /\ pc["loop"] = "recv"

\* C8: i3::shutdown is dispatched at most once, and no handler is invoked
\* with it more than once.
IsShutdown(d) == d.event = <<"i3", "shutdown">>
C8_ShutdownAtMostOnce ==
    /\ Len(SelectSeq(dispatched, IsShutdown)) <= 1
    /\ \A i, j \in DOMAIN invoked :
           (IsShutdown(invoked[i]) /\ IsShutdown(invoked[j])
               /\ invoked[i].h = invoked[j].h) => i = j

\* a shutdown event was dispatched to two handlers, then close() was called
\* and run went through its final _dispatch_shutdown('close')
C8_Witness ==
    /\ pc["run"] = "done"
    /\ Len(SelectSeq(invoked, IsShutdown)) = 2
    /\ yielded[Len(yielded)].name = "shutdown"
    /\ closed

\* C9: every shutdown handler is invoked at most once, with "eof" when the
\* hub consumed the eof event, and with the payload of the shutdown event
\* when it consumed a shutdown event.
C9_ShutdownArgument ==
    \A k \in DOMAIN invoked :
        IsShutdown(invoked[k]) =>
            /\ \A j \in DOMAIN invoked :
                   (IsShutdown(invoked[j]) /\ invoked[j].h = invoked[k].h)
                       => j = k
            /\ \E i \in DOMAIN yielded :
                   \/ yielded[i].name = "eof" /\ invoked[k].arg = "eof"
                   \/ /\ yielded[i].name = "shutdown"
                      /\ invoked[k].arg = yielded[i].payload

\* C10: the hub consumes nothing after a shutdown or eof event, and the i3
\* events it has dispatched are the events it consumed before that one.
IsTerminal(e) == e.name \in {"shutdown", "eof"}
IsI3Dispatch(d) == d.event[1] = "i3" /\ ~IsShutdown(d)
C11_ClosedRunFails ==
    [][(pc["run"] = "start" /\ closed /\ pc'["run"] # "start") =>
          /\ pc'["run"] = "dead"
          /\ "AlreadyClosed" \in raised'
          /\ UNCHANGED <<written, send_queue, reply, ncalls, event_handlers,
                         registered, dispatched, invoked, shutting_down>>]_vars

\* the hub ran, dispatched the shutdown and closed; run() was called again
\* and raised
C11_Witness ==
    /\ closed
    /\ "AlreadyClosed" \in raised
    /\ pc["run"] = "dead"
    /\ pc["loop"] = "done"
    /\ Len(SelectSeq(dispatched, IsShutdown)) = 1
\* C12: on a closed hub no step, a further close() included, changes
\* _closed, closes the connection again or feeds the streams EOF again;
\* the connection is closed at most once and the shutdown is dispatched at
\* most once, however often close() is called.
C12_CloseIdempotent ==
    /\ [][closed =>
            UNCHANGED <<closed, connClosed, sockEof, barEof, closeCalls.conn>>]_vars
    /\ [](closeCalls.conn <= 1 /\ Len(SelectSeq(dispatched, IsShutdown)) <= 1)

\* close() was called three times, twice by signal and once by the hub
\* itself after the shutdown dispatch
C12_Witness ==
    /\ closeCalls.hub = 3
    /\ closeCalls.conn = 1
    /\ pc["loop"] = "done"
    /\ Len(SelectSeq(dispatched, IsShutdown)) = 1
\* C13: the API is marked shutting down before any shutdown handler is
\* invoked, and a message method called on the wrapper when it is marked
\* raises in that step, which writes no frame and queues no waiter.
C13_NoCallsWhenShuttingDown ==
    /\ [](\A k \in DOMAIN invoked : IsShutdown(invoked[k]) => shutting_down)
    /\ [][\A c \in Callers :
             (pc[c] = "call" /\ shutting_down /\ pc'[c] # "call") =>
                 /\ pc'[c] = "dead"
                 /\ "ShuttingDown" \in raised'
                 /\ UNCHANGED <<written, send_queue, reply, ncalls>>]_vars

\* a task that had a call answered calls again after the shutdown handler
\* was invoked, and is refused
C13_Witness ==
    /\ "ShuttingDown" \in raised
    /\ \E c \in Callers :
           /\ pc[c] = "dead"
           /\ \E k \in DOMAIN returned : returned[k].by = c
    /\ \E k \in DOMAIN invoked : IsShutdown(invoked[k])
\* C14: every handler is invoked with the i3 events it listens to at most
\* once per frame consumed, under the frame's name and payload, and in the
\* order in which the frames arrived.
Handlers == {"h1", "h2", "h3"}
RECURSIVE IsSubseq(_, _)
IsSubseq(a, b) ==
    IF a = <<>> THEN TRUE
    ELSE IF b = <<>> THEN FALSE
    ELSE IF Head(a) = Head(b) THEN IsSubseq(Tail(a), Tail(b))
    ELSE IsSubseq(a, Tail(b))
\* the (event, payload) pairs handler h was invoked with, in order
RECURSIVE InvokedWith(_, _)
InvokedWith(h, inv) ==
    IF inv = <<>> THEN <<>>
    ELSE (IF Head(inv).h = h /\ IsI3Dispatch(Head(inv))
          THEN <<[name |-> Head(inv).event[2], payload |-> Head(inv).arg]>>
          ELSE <<>>) \o InvokedWith(h, Tail(inv))
\* the consumed events that handler h is registered for, in arrival order
RECURSIVE DueTo(_, _)
DueTo(h, evs) ==
    IF evs = <<>> THEN <<>>
    ELSE (IF /\ ~IsTerminal(Head(evs))
             /\ \E i \in DOMAIN DictGet(event_handlers, <<"i3", Head(evs).name>>) :
                    DictGet(event_handlers, <<"i3", Head(evs).name>>)[i] = h
          THEN <<Head(evs)>> ELSE <<>>) \o DueTo(h, Tail(evs))
C14_HandlersInArrivalOrder ==
    \A h \in Handlers : IsSubseq(InvokedWith(h, invoked), DueTo(h, yielded))
\* C15: once the tasks dispatching i3 events have ended, every handler
\* registered for a dispatched event has been invoked with it, whether or
\* not another handler of that event raised.
C15_RaiseDoesNotStopOthers ==
    (\A d \in DispatchTasks : pc[d] = "free") =>
        \A k \in DOMAIN dispatched :
            IsI3Dispatch(dispatched[k]) =>
                \A i \in DOMAIN DictGet(event_handlers, dispatched[k].event) :
                    \E j \in DOMAIN invoked :
                        invoked[j] =
                            [h |-> DictGet(event_handlers, dispatched[k].event)[i],
                             event |-> dispatched[k].event,
                             arg |-> dispatched[k].arg]

\* the handlers of i3hub::i3bar_refresh, in registration order
RefreshHandlers == DictGet(event_handlers, <<"i3hub", "i3bar_refresh">>)
\* the step in which the second refresh handler of task s raises
SecondRaises(s) ==
    /\ pc[s] = "dispatch"
    /\ IsRefresh(dctx[s])
    /\ dctx[s].idx = 2
    /\ pc'[s] = "free"

\* C16: in a refresh cycle with three refresh handlers whose second raises,
\* the array line is still written, with the first handler's item and
\* without the third's, and the hub keeps running
C16_RaiseStillWritesLine ==
    [][\A s \in RefreshTasks :
          (Len(RefreshHandlers) = 3 /\ SecondRaises(s))
              => /\ barOut' = Append(barOut, ArrayLine(<<RefreshHandlers[1]>>))
                 /\ pc'["run"] = pc["run"]]_vars

\* the step in which the refresh cycle of task s ends
CycleEnds(s) ==
    /\ pc[s] = "dispatch"
    /\ IsRefresh(dctx[s])
    /\ pc'[s] = "free"
IsLine(x) == x.kind = "line"

\* C17: every refresh cycle starts from an empty array, invokes the refresh
\* handlers serially in registration order, and writes exactly one array
\* line, whose content is what the handlers added in that cycle
C17_OneFreshLinePerCycle ==
    /\ [][\A s \in RefreshTasks :
             CycleEnds(s)
                 => /\ status_array[s] = RefreshHandlers
                    /\ barOut' = Append(barOut, ArrayLine(status_array[s]))]_vars
    /\ [](\A i \in DOMAIN barOut :
             IsLine(barOut[i]) => barOut[i].items = RefreshHandlers)

\* the commas and array lines written so far, in order
IsCommaOrLine(x) == x.kind \in {"comma", "line"}
StatusTokens == SelectSeq(barOut, IsCommaOrLine)

\* C18: whatever the interleaving of refreshes, what is written after the
\* opening bracket is a sequence of array lines, the first without a comma
\* and every later one preceded by exactly one comma
C18_CommaBeforeAllButFirst ==
    \A i \in DOMAIN StatusTokens :
        StatusTokens[i].kind = IF i % 2 = 1 THEN "line" ELSE "comma"

IsHeader(x) == x.kind = "header"
IsOpen(x) == x.kind = "open"

\* C19: running as status command, the header and the opening bracket are
\* written exactly once and before any status array line, wherever an
\* extension calls refresh_i3bar from
C19_HeaderOnceAndFirst ==
    /\ Len(SelectSeq(barOut, IsHeader)) <= 1
    /\ Len(SelectSeq(barOut, IsOpen)) <= 1
    /\ barOut # <<>> => /\ Len(barOut) >= 2
                        /\ barOut[1] = HeaderLine
                        /\ barOut[2] = OpenBracket
    /\ pc["status"] = "done" => Len(SelectSeq(barOut, IsHeader)) = 1

\* i3bar sent the stop signal, dispatch_stop has returned, and no cont
\* signal came since
Suspended ==
    /\ stopped
    /\ \A d \in DispatchTasks : ~IsSuspend(dctx[d])

\* C20: between a suspend and the next resume the hub writes nothing to the
\* status output, even if refresh_i3bar is called in between
C20_NoOutputWhileSuspended ==
    [][(Suspended /\ stopped') => barOut' = barOut]_vars

\* the click lines i3bar wrote, without the comma that precedes every one
\* but the first (clickSent[1] is the opening bracket)
ClickBody(i) == IF i = 2 THEN clickSent[i] ELSE Tail(clickSent[i])
RECURSIVE WellFormedClicks(_)
WellFormedClicks(n) ==
    IF n < 2 THEN <<>>
    ELSE IF IsJson(ClickBody(n))
    THEN Append(WellFormedClicks(n - 1), JsonLoads(ClickBody(n)))
    ELSE WellFormedClicks(n - 1)
IsClick(d) == d.event = <<"i3hub", "i3bar_click">>
RECURSIVE Args(_)
Args(ds) == IF ds = <<>> THEN <<>> ELSE <<Head(ds).arg>> \o Args(Tail(ds))
ClickDispatches == Args(SelectSeq(dispatched, IsClick))
IsPrefix(a, b) == Len(a) <= Len(b) /\ a = SubSeq(b, 1, Len(a))

\* C21: after the bracket line every well-formed click line is dispatched
\* as one i3hub::i3bar_click, exactly once and in input order; a malformed
\* line is skipped and does not stop the lines after it
C21_ClicksDispatchedInOrder ==
    /\ IsPrefix(ClickDispatches, WellFormedClicks(Len(clickSent)))
    /\ (clickIn = <<>> /\ pc["click"] \in {"wait_line", "done"})
           => ClickDispatches = WellFormedClicks(Len(clickSent))
    /\ pc["click"] = "dead"
           => ClickDispatches = WellFormedClicks(Len(clickSent))

\* the item of the latest status_array_merge call
LastMerged == m_log.items[Len(m_log.items)]

\* C22: status_array_merge is idempotent: merging an item a second time
\* leaves the array of the first merge, elements, order and fields
C22_MergeIdempotent ==
    m_log.items # <<>> => status_array_merge(m_array, LastMerged) = m_array
\* an item was merged into an element that was there, and one was inserted
C22_Witness ==
    /\ Len(m_log.items) = 2
    /\ Len(m_array) = Len(m_log.start) + 1
    /\ m_log.start # <<>>

\* the keys of a dict, and the place of the first element of arr with
\* the name of item
KeysOf(d) == {d[i][1] : i \in DOMAIN d}
NamedLike(arr, item) ==
    {i \in DOMAIN arr : Item(arr[i], "name") = Item(item, "name")}
Min(S) == CHOOSE x \in S : \A y \in S : x <= y
\* element new is element old updated with item: item's values win, the
\* other fields of old are kept, no other field appears
UpdatedWith(new, old, item) ==
    /\ KeysOf(new) = KeysOf(old) \cup KeysOf(item)
    /\ \A k \in KeysOf(item) : Item(new, k) = Item(item, k)
    /\ \A k \in KeysOf(old) \ KeysOf(item) : Item(new, k) = Item(old, k)
    /\ Len(new) = Cardinality(KeysOf(new))

\* C23: a merge updates the first element that has item's name, in place,
\* and leaves every other element and the order as they were; with no
\* such element the item becomes the first element, the others following
C23_MergeUpdatesOrPrepends ==
    [][m_log' # m_log =>
         LET item == m_log'.items[Len(m_log'.items)] IN
         IF NamedLike(m_array, item) # {}
         THEN LET k == Min(NamedLike(m_array, item)) IN
              /\ Len(m_array') = Len(m_array)
              /\ UpdatedWith(m_array'[k], m_array[k], item)
              /\ \A j \in DOMAIN m_array \ {k} : m_array'[j] = m_array[j]
         ELSE m_array' = <<item>> \o m_array]_vars
\* both cases happened: an element that was not the first one was updated,
\* and an item was put before the elements that were there
C23_Witness ==
    /\ Len(m_log.items) = 2
    /\ Len(m_log.start) = 1
    /\ Len(m_array) = 2
    /\ m_array[1] = m_log.items[1]
    /\ m_array[2] # m_log.start[1]

\* the merges so far that carried name n and set field f
MergesOf(n, f) ==
    {i \in DOMAIN m_log.items :
        Item(m_log.items[i], "name") = n /\ HasKey(m_log.items[i], f)}
Max(S) == CHOOSE x \in S : \A y \in S : x >= y
MergeFields == {"name", "full_text", "color"}

\* C24: from an empty array, after any sequence of merges the array has
\* exactly one element per name merged, and each of its fields holds the
\* value of the latest merge of that name that set the field
C24_OneEntryPerName ==
    m_log.start = <<>> =>
        /\ \A i, j \in DOMAIN m_array :
               Item(m_array[i], "name") = Item(m_array[j], "name") => i = j
        /\ {Item(m_array[i], "name") : i \in DOMAIN m_array}
               = {Item(m_log.items[i], "name") : i \in DOMAIN m_log.items}
        /\ \A i \in DOMAIN m_array : \A f \in MergeFields :
               LET n == Item(m_array[i], "name") IN
               /\ HasKey(m_array[i], f) <=> MergesOf(n, f) # {}
               /\ HasKey(m_array[i], f) =>
                      Item(m_array[i], f) = Item(m_log.items[Max(MergesOf(n, f))], f)
\* the scenario of the two extensions: cpu 5%, then cpu 5% in red
C24_Witness ==
    /\ m_log.start = <<>>
    /\ m_log.items = <<<<<<"name", "cpu">>, <<"full_text", "5%">>>>,
                       <<<<"name", "cpu">>, <<"full_text", "5%">>,
                         <<"color", "red">>>>>>
    /\ m_array = <<<<<<"name", "cpu">>, <<"full_text", "5%">>,
                     <<"color", "red">>>>>>

\* C25: decoding the frame built from a type index, an event flag and a
\* JSON payload gives back the type index, the flag and the payload
C25_CodecRoundTrip ==
    [][(c_wire # <<>> /\ c_wire' = <<>>) => c_out' = c_in]_vars
\* an event frame with the largest type index and a payload whose
\* characters take one and three bytes went through
C25_Witness ==
    /\ c_wire = <<>>
    /\ c_out = <<2147483647, TRUE, JStr(<<8364, 97>>)>>

\* the reader is about to be handed a frame whose header is invalid: the
\* magic bytes differ, or the stream ended inside the header
BadHeaderAtHead == inbuf # <<>> /\ Head(inbuf).magic # MAGIC
\* _recv consumed what was at the head of the stream
FrameConsumed == inbuf # <<>> /\ inbuf' = Tail(inbuf)

\* an exception leaves the _poll of the running task
ReadFails ==
    \E t \in Tasks : Running(t) /\ pc[t] = "recv" /\ pc'[t] = Dead(t)

\* C26: a read that meets an invalid header fails with an error; it queues
\* no event, no synthetic eof event either, and resolves no pending reply.
C26_BadHeaderIsFatal ==
    [][(BadHeaderAtHead /\ FrameConsumed) =>
          /\ event_queue' = event_queue
          /\ reply' = reply
          /\ ReadFails]_vars

\* the synthetic eof events pushed so far: those wait_event has returned
\* and those still queued
IsEofEvent(e) == e = EofEvent
EofPushed == Len(SelectSeq(yielded \o event_queue, IsEofEvent))

\* C27: EOF pushes exactly one synthetic eof event and marks the connection
\* closed for reading; once it is marked no poll enters _recv, takes a frame
\* from the socket or pushes another eof event.
C27_OneEofEvent ==
    [][/\ eof' => EofPushed' = 1
       /\ eof => /\ \A t \in Tasks : pc'[t] = "recv" => pc[t] = "recv"
                 /\ Len(inbuf') >= Len(inbuf)
                 /\ EofPushed' = EofPushed]_vars

\* _recv is about to return a non-event frame while the reply slot is empty
StrayAtHead ==
    /\ inbuf # <<>>
    /\ Head(inbuf) # PartialHeader
    /\ ~Head(inbuf).ev
    /\ reply = NoReply

\* C28: a poll that reads a non-event frame while no request is outstanding
\* fails with an error; the frame is dropped: it is not queued as an event,
\* it resolves nothing and no call returns.
C28_StrayReplyIsFatal ==
    [][(StrayAtHead /\ FrameConsumed) =>
          /\ ReadFails
          /\ raised' # {}
          /\ event_queue' = event_queue
          /\ reply' = NoReply
          /\ returned' = returned]_vars
\* wait_event read the stray frame, its AssertionError ended the caller
C28_Witness ==
    /\ pc["ev"] = "dead"
    /\ raised = {"AssertionError"}
    /\ ~eof /\ ~sockEof
    /\ written = <<>>
    /\ nevents = 1
    /\ inbuf = <<>> /\ event_queue = <<>> /\ yielded = <<>>

\* _recv is about to read the reply to the pending request, and its body
\* is not JSON
BadJsonReplyAtHead ==
    /\ inbuf # <<>>
    /\ ~Head(inbuf).ev
    /\ Head(inbuf).payload = InvalidJson
    /\ reply # NoReply /\ ~reply.done
InReady(t, q) == \E i \in DOMAIN q : q[i] = t

\* C29: when the body of the awaited reply is not JSON, the waiting call is
\* resumed (with the error) and the connection stays usable: the polling
\* flag is reset, so that a later call starts a reader.
C29_BadJsonFailsTheCall ==
    [][(BadJsonReplyAtHead /\ FrameConsumed) =>
          /\ InReady(reply.owner, ready')
          /\ polling' = FALSE]_vars

\* the frames written for the _send invocation numbered id
FramesOf(id) == {k \in DOMAIN written : written[k].id = id}

\* C30: a call of the method at place i of the catalog (counted from zero)
\* writes exactly one frame, of type i (so with bit 31 clear) and with the
\* serialized argument as body, and returns the payload of the reply the
\* peer sent to that frame.
C30_MethodWritesItsFrame ==
    /\ \A k \in DOMAIN written :
           LET w == written[k] IN
           callId[w.by] = w.id =>
              /\ \E i \in 0..10 : /\ MESSAGES[i + 1].name = req[w.by].name
                                  /\ w.type = i
              /\ w.payload = Serialize(req[w.by].name, req[w.by].arg)
    /\ \A t \in Callers :
           pc[t] = "await_reply" => Cardinality(FramesOf(callId[t])) = 1
    /\ \A n \in DOMAIN returned :
           /\ Cardinality(FramesOf(returned[n].id)) = 1
           /\ \A k \in FramesOf(returned[n].id) :
                  returned[n].val = ReplyFor(k)
\* subscribe(['mode', 'tick']) wrote, after a command of the other task, a
\* frame of type 2 with the body ["mode","tick"] and returned its reply
C30_Witness ==
    /\ Len(written) = 2
    /\ written[1].by = "c2" /\ written[1].type = 0
    /\ written[2].by = "c1" /\ written[2].type = 2
    /\ written[2].payload = <<91, 34, 109, 111, 100, 101, 34, 44,
                              34, 116, 105, 99, 107, 34, 93>>
    /\ \E n \in DOMAIN returned :
           /\ returned[n].id = written[2].id
           /\ returned[n].val = "r2"

\* _recv is about to return an event frame
EventAtHead ==
    /\ inbuf # <<>>
    /\ Head(inbuf) # PartialHeader
    /\ Head(inbuf).ev
\* the fixed event catalog, in order
EventCatalog ==
    <<"workspace", "output", "mode", "window", "barconfig_update",
      "binding", "shutdown", "tick">>

\* C31: an event frame of type i in 0..7 is queued as the pair (name at
\* place i of the event catalog, payload of the frame), and wait_event
\* returns the queued pairs as they are, oldest first.
C31_EventNamedByCatalog ==
    [][/\ (EventAtHead /\ FrameConsumed) =>
             event_queue' =
                 Append(event_queue,
                        [name |-> EventCatalog[Head(inbuf).type + 1],
                         payload |-> Head(inbuf).payload])
       /\ yielded' # yielded =>
             /\ event_queue # <<>>
             /\ yielded' = Append(yielded, Head(event_queue))]_vars
\* wait_event returned the events of a frame of type 0 and of one of type 7
C31_Witness ==
    /\ yielded = <<[name |-> "workspace", payload |-> "{}"],
                   [name |-> "tick", payload |-> "[1]"]>>
    /\ nevents = 2
    /\ inbuf = <<>> /\ event_queue = <<>>

\* the handlers of i3hub::init, in registration order
InitHandlers == DictGet(event_handlers, <<"i3hub", "init">>)
IsInit(x) == x.event = <<"i3hub", "init">>
\* run is inside _dispatch_init_event
InInit == dctx["run"].ctx = "init"
\* _dispatch_init_event was called and run has left it
InitOver == (\E k \in DOMAIN dispatched : IsInit(dispatched[k])) /\ ~InInit
\* the invocations of the handler registered at place i for init, with the
\* flag and the config section of the extension that holds it
InitInvocations(i) ==
    {j \in DOMAIN invoked :
        invoked[j] =
            [h |-> InitHandlers[i], event |-> <<"i3hub", "init">>,
             arg |-> [running_as_status |-> run_as_status,
                      config |-> ModuleOf(InitHandlers[i])[3]]]}
\* the hub reads events from the connection, or has dispatched one
ReadingEvents ==
    \/ pc["loop"] # "off"
    \/ \E k \in DOMAIN dispatched : dispatched[k].event[1] = "i3"

\* C32: no handler gets init twice; once run has left the init dispatch
\* every registered init handler was invoked once, with running_as_status
\* and the config section of its extension; the hub reads and dispatches
\* i3 events only after that.
C32_InitOnceBeforeEvents ==
    /\ Cardinality({j \in DOMAIN invoked : IsInit(invoked[j])})
           <= Len(InitHandlers)
    /\ InitOver =>
           \A i \in DOMAIN InitHandlers : Cardinality(InitInvocations(i)) = 1
    /\ ReadingEvents => InitOver

\* the invocations one dispatch of event ev makes when every handler
\* registered for ev gets it, at place i with the list as the handlers
\* before it left it
EmitRound(ev) ==
    [i \in DOMAIN DictGet(event_handlers, ev) |->
        [h |-> DictGet(event_handlers, ev)[i], event |-> ev,
         arg |-> SubSeq(DictGet(event_handlers, ev), 1, i - 1)]]
RECURSIVE EmitRounds(_)
EmitRounds(ds) ==
    IF ds = <<>> THEN <<>>
    ELSE EmitRound(Head(ds).event) \o EmitRounds(Tail(ds))
\* no emit_event call is under way
EmitIdle == pc["emit"] \in {"off", "call", "dead"}
\* the list as the emitter sees it after each emit_event that returned
EmittedSeen ==
    \A k \in DOMAIN emitted :
        emitted[k].arg = DictGet(event_handlers, emitted[k].event)

\* C33: when no emit_event call is under way, every emit_event made so far
\* has invoked each handler registered for 'extension::' + event, in order,
\* with the one list the emitter passed; and after each emit_event that
\* returned the emitter's list holds what every one of these handlers
\* appended to it.
C33_EmitReachesEveryHandler ==
    /\ EmitIdle =>
           SelectSeq(invoked, IsEmit) = EmitRounds(SelectSeq(dispatched, IsEmit))
    /\ EmittedSeen

\* the handlers invoked for event ev so far, in order of invocation
RECURSIVE InvokedFor(_, _)
InvokedFor(ev, inv) ==
    IF inv = <<>> THEN <<>>
    ELSE (IF Head(inv).event = ev THEN <<Head(inv).h>> ELSE <<>>)
             \o InvokedFor(ev, Tail(inv))
RECURSIVE Repeat(_, _)
Repeat(s, n) == IF n = 0 THEN <<>> ELSE s \o Repeat(s, n - 1)
\* the tasks inside a dispatch of ev, and how many handlers task t has
\* started in its dispatch: those that completed, and the one it is in
Dispatching(ev) == {t \in HubTasks : dctx[t].event = ev}
Started(t) ==
    dctx[t].idx - 1 + (IF pc[t] \in {"in_handler", "resumed"} THEN 1 ELSE 0)
NDispatched(ev) ==
    Cardinality({k \in DOMAIN dispatched : dispatched[k].event = ev})
EventNames ==
    DOMAIN event_handlers \cup {<<"extension", "other">>}

\* C34: for every event name with no dispatch under way, each dispatch made
\* so far invoked the whole list registered for the name, in registration
\* order and with a handler listed twice invoked twice; while one dispatch
\* is under way it has started a prefix of that list, its last handler
\* started only after the ones before it completed.
C34_DispatchFollowsRegistration ==
    \A ev \in EventNames :
        LET regs == DictGet(event_handlers, ev)
            act == Dispatching(ev)
        IN  /\ act = {} =>
                   InvokedFor(ev, invoked) = Repeat(regs, NDispatched(ev))
            /\ \A t \in act :
                   act = {t} =>
                       InvokedFor(ev, invoked) =
                           Repeat(regs, NDispatched(ev) - 1)
                               \o SubSeq(regs, 1, Started(t))

\* _recv is about to return the reply to the pending request
ReplyAtHead ==
    /\ inbuf # <<>>
    /\ Head(inbuf) # PartialHeader
    /\ ~Head(inbuf).ev
    /\ reply # NoReply

\* C35: whichever task reads it, an event frame adds one entry to the event
\* queue and leaves the reply slot as it is, and a non-event frame resolves
\* the pending reply with its payload and leaves the event queue as it is.
C35_FrameToOneDestination ==
    [][/\ (EventAtHead /\ FrameConsumed) =>
              /\ Len(event_queue') = Len(event_queue) + 1
              /\ reply' = reply
       /\ (ReplyAtHead /\ FrameConsumed) =>
              /\ event_queue' = event_queue
              /\ ~reply.done
              /\ reply' = [reply EXCEPT !.done = TRUE,
                                        !.val = Head(inbuf).payload]]_vars
\* the _poll of a wait_event caller has just read a frame, the peer has
\* sent no event: the frame was the reply, which is resolved, and the event
\* queue is empty
C35_Witness ==
    /\ inStep /\ Running("ev") /\ pc["ev"] = "loop"
    /\ nevents = 0 /\ ~eof
    /\ nreplied = 1 /\ inbuf = <<>>
    /\ reply # NoReply /\ reply.done
    /\ event_queue = <<>>

\* C36: with a peer that answers every request and a reader for every
\* request written, a caller suspended in _send as a waiter eventually gets
\* its reply, whatever the other callers do.
C36_WaiterEventuallyServed ==
    \A c \in Callers : (pc[c] = "send_wait") ~> (pc[c] = "idle")

\* i3::shutdown was dispatched and the task that dispatched it has left
\* the dispatch
ShutdownHandled ==
    /\ \E k \in DOMAIN dispatched : IsShutdown(dispatched[k])
    /\ \A t \in HubTasks : dctx[t].ctx # "shutdown"

\* C37: whenever the socket of the connection is closed, the shutdown event
\* has been dispatched and its handlers have completed.
C37_ShutdownBeforeClose == connClosed => ShutdownHandled

\* _dispatch_i3_events leaves its shutdown dispatch and calls close()
LoopCloses ==
    /\ pc["loop"] = "dispatch"
    /\ pc'["loop"] # "dispatch"
    /\ closeCalls'.hub = closeCalls.hub + 1
\* C37, as the code has it: when _dispatch_i3_events calls close(), after a
\* shutdown event or the eof event, i3::shutdown has been dispatched and its
\* handlers have completed; a close() from elsewhere closes the socket at
\* once and dispatches nothing.
C37_LoopClosesAfterShutdown ==
    [][/\ LoopCloses => ShutdownHandled'
       /\ (~connClosed /\ connClosed' /\ ~LoopCloses) =>
              /\ dispatched' = dispatched
              /\ invoked' = invoked]_vars
\* the peer closed the socket, the shutdown handlers got "eof" and
\* completed, and the one close() call, that of _dispatch_i3_events, closed
\* the connection
C37_Witness ==
    /\ pc["loop"] = "done"
    /\ closeCalls.hub = 1 /\ connClosed
    /\ yielded[Len(yielded)].name = "eof"
    /\ Len(SelectSeq(invoked, IsShutdown)) = 2
    /\ dispatched[Len(dispatched)] =
           [event |-> <<"i3", "shutdown">>, arg |-> "eof"]

\* _dispatch_i3_events dispatched i3::shutdown, for a shutdown event or for
\* the eof event, and has left that dispatch
LoopShutdownOver ==
    /\ \E k \in DOMAIN dispatched :
           IsShutdown(dispatched[k]) /\ dispatched[k].arg # "close"
    /\ dctx["loop"].ctx # "shutdown"

\* C38: once _dispatch_i3_events has left the dispatch of the shutdown
\* event, whether its handlers returned or raised, the hub is closed and so
\* is its connection.
C38_ShutdownRaiseStillCloses ==
    LoopShutdownOver => closed /\ connClosed

\* a request was written and its reply has not been read
ReplyPending == reply # NoReply /\ ~reply.done
\* task t is inside _recv, or is runnable and will call _poll when it runs:
\* a _wait_reply task at its loop test, a wait_event caller at its loop
\* test with the event queue empty
WillRead(t) ==
    \/ pc[t] = "recv"
    \/ t \in WaitReplyTasks /\ pc[t] = "loop"
    \/ t \in Consumers /\ pc[t] = "loop" /\ event_queue = <<>>

\* C39: while a reply is pending and EOF has not been seen, some task is
\* reading the socket or is about to.
C39_ReaderWhileReplyPending ==
    (ReplyPending /\ ~eof) => \E t \in Tasks : WillRead(t)

\* the hub is running: run() awaits gather and _dispatch_i3_events has not
\* ended
HubRunning == pc["run"] = "gather" /\ pc["loop"] \notin {"dead", "done"}
\* the peer has closed the socket, or a shutdown event is on its way
TerminalEventSent ==
    \/ sockEof /\ ~connClosed
    \/ \E i \in DOMAIN inbuf : inbuf[i].ev /\ inbuf[i].type = 6
\* run() returned and the hub is closed
HubClosed ==
    /\ pc["run"] = "done"
    /\ closed /\ connClosed
    /\ run_as_status => barEof

\* C40: when the peer closes the socket or sends a shutdown event while the
\* hub is running, and handlers return, run() eventually returns with the
\* hub closed: its connection closed and, for a status command, the click
\* stream fed EOF.
C40_HubTerminates == (HubRunning /\ TerminalEventSent) ~> HubClosed

TypeOK ==
    /\ pc \in [Tasks -> {"idle", "send", "send_wait", "await_reply", "loop",
                         "recv", "free", "dead", "off", "start",
                         "subscribed", "await_status", "dispatch",
                         "in_handler", "resumed", "gather", "handle",
                         "done", "call", "refresh", "wait_open",
                         "wait_line"}]
    /\ polling \in BOOLEAN
    /\ eof \in BOOLEAN
    /\ streamWaiter \in Tasks \cup {NoTask}

====
